---- MODULE Spec2Model ----
(***************************************************************************)
(* A model of Rift's EntityManager (src/Rift/entity.inl) together with the  *)
(* containers it is built on: internal::SparseSet                           *)
(* (src/Rift/internal/sparse_set.inl) and internal::Pool<C>                 *)
(* (src/Rift/internal/pool.inl).                                            *)
(*                                                                          *)
(* Slot indices, dense positions and family ids are 0-based as in the code; *)
(* a C++ vector v is a TLA+ sequence s with v[k] = s[k + 1].                *)
(***************************************************************************)
EXTENDS Integers, Sequences, FiniteSets, TLC

(***************************************************************************)
(* Bounds of the model.                                                     *)
(***************************************************************************)
\* the slot vectors (masks, index_versions) grow to at most this many slots
MaxEntities == 2
\* component types in use; their family ids are 0 .. NumFamilies - 1
NumFamilies == 2
\* a component value is one of 0 .. MaxValue
MaxValue == 1
\* width of a slot's version counter (std::uint32_t in the code)
VersionBits == 2
\* Spec flushes a slot only while its version is below MaxVersion
MaxVersion == 2
\* SpecWrap flushes only while free_indices stays within this many entries
MaxReusable == 2
\* SpecCount lets the slot vectors grow to this many slots
MaxSlots == 3
\* the most component types a build allows (128 in the code); the model has one
\* component type more than that
MAX_COMPONENTS == 2
MaxWorkers == 2
MaxSetValue == 3
MaxCacheIndex == 2
MaxObject == 1
\* system types in use
NumSystems == 2

\* a value-initialised component (C() as built by std::vector::resize)
DefaultValue == 0

RECURSIVE Pow2(_)
Pow2(k) == IF k = 0 THEN 1 ELSE 2 * Pow2(k - 1)

VersionMod == Pow2(VersionBits)

Families == 0 .. (NumFamilies - 1)
Values == 0 .. MaxValue
\* the values of a component type: the type of family 0 holds a value, the
\* other types are empty structs
ComponentValues(family) == IF family = 0 THEN Values ELSE {DefaultValue}
\* a query signature is the mask of a non-empty list of component types
Signatures == (SUBSET Families) \ {{}}
\* the signatures the host queries with for_entities_with
QuerySignatures == { sig \in Signatures : 0 \in sig }

\* a null std::unique_ptr<BasePool>, and a pool that has been made
NoPool == [made |-> FALSE, components |-> << >>]
NewPool == [made |-> TRUE, components |-> << >>]

VARIABLES
    masks,              \* std::vector<ComponentMask>
    index_versions,     \* std::vector<std::uint32_t>
    free_indices,       \* indices to reuse; the top is the last element
    indices_to_destroy, \* SparseSet of the indices marked for destruction
    component_pools,    \* std::vector<std::unique_ptr<BasePool>>
    index_caches,       \* std::unordered_map from signature to SparseSet of indices
    issued,             \* every Entity handle the manager has returned
    owns,               \* slot -> families added and not removed since the slot's last flush
    family_counter,     \* internal::BaseComponent::family_counter
    family_id,          \* component type -> the static family_id of internal::Component<type>::family()
    BaseComponent_m_family, \* BaseComponent::m_family of component.h
    component_family,   \* component type -> the static component_family of Component<type>::family()
    BaseSystem_m_family, \* BaseSystem::m_family
    system_family,      \* system type -> the static system_family of System<type>::family()
    systems,            \* std::vector<std::shared_ptr<BaseSystem>>: {} is null, {S} an instance of S
    calls,              \* what the last update_all / update did, call by call, the flush last
    workers,            \* the par_for_entities_with in progress: its visitor and its invocations
    sparse_set,         \* an internal::SparseSet of its own
    members,            \* the integers inserted into sparse_set and not erased since
    object_cache,       \* an internal::Cache<T> of its own
    stored              \* index -> the object inserted there and not erased since, and the place it was put at

\* the family registries of the component types
registry_vars == << family_counter, family_id, BaseComponent_m_family, component_family >>

\* the variables of the entity manager
entity_vars == << masks, index_versions, free_indices, indices_to_destroy,
                  component_pools, index_caches, issued, owns >>

\* the SystemManager, the family ids of the system types and the record of its
\* last update
system_vars == << BaseSystem_m_family, system_family, systems, calls >>

\* the parallel pass in progress
par_vars == << workers >>

\* a SparseSet used by itself
set_vars == << sparse_set, members >>

\* a Cache<T> used by itself
cache_vars == << object_cache, stored >>

\* the variables that no operation of an entity touches
other_vars == << registry_vars, system_vars, par_vars, set_vars, cache_vars >>

vars == << masks, index_versions, free_indices, indices_to_destroy,
           component_pools, index_caches, issued, owns,
           family_counter, family_id, BaseComponent_m_family, component_family,
           BaseSystem_m_family, system_family, systems, calls, workers,
           sparse_set, members, object_cache, stored >>

(***************************************************************************)
(* std::vector helpers.                                                     *)
(***************************************************************************)
\* v.resize(len) on a vector shorter than len: new elements are value-initialised
Resize(v, len, fill) ==
    IF Len(v) >= len THEN SubSeq(v, 1, len)
    ELSE v \o [k \in 1 .. (len - Len(v)) |-> fill]

(***************************************************************************)
(* internal::SparseSet                                                      *)
(***************************************************************************)
EmptySparseSet == [n |-> 0, dense |-> << >>, sparse |-> << >>]

SparseSet_contains(s, v) ==
    IF v >= Len(s.sparse) THEN FALSE
    ELSE /\ s.sparse[v + 1] < s.n
         /\ s.dense[s.sparse[v + 1] + 1] = v

SparseSet_size(s) == s.n

\* the integers met by iterating over [begin(), end())
SparseSet_elements(s) == { s.dense[k] : k \in 1 .. s.n }

\* an insert that does not record in sparse where the integer is
SparseSet_insert_unlinked(s, v) ==
    LET sp == IF Len(s.sparse) <= v THEN Resize(s.sparse, v + 1, 0) ELSE s.sparse
        de == IF Len(s.dense) <= s.n THEN Resize(s.dense, s.n + 1, 0) ELSE s.dense
    IN  [n      |-> s.n + 1,
         dense  |-> [de EXCEPT ![s.n + 1] = v],
         sparse |-> sp]

SparseSet_insert(s, v) ==
    LET sp == IF Len(s.sparse) <= v THEN Resize(s.sparse, v + 1, 0) ELSE s.sparse
        de == IF Len(s.dense) <= s.n THEN Resize(s.dense, s.n + 1, 0) ELSE s.dense
    IN  [n      |-> s.n + 1,
         dense  |-> [de EXCEPT ![s.n + 1] = v],
         sparse |-> [sp EXCEPT ![v + 1] = s.n]]

\* an erase that leaves sparse as it is
SparseSet_erase_unlinked(s, v) ==
    [n |-> s.n - 1,
     dense |-> [s.dense EXCEPT ![s.sparse[v + 1] + 1] = s.dense[s.n]],
     sparse |-> s.sparse]

SparseSet_erase(s, v) ==
    LET pos   == s.sparse[v + 1]
        de    == [s.dense EXCEPT ![pos + 1] = s.dense[s.n]]
        sp    == [s.sparse EXCEPT ![de[s.n] + 1] = pos]
    IN  [n |-> s.n - 1, dense |-> de, sparse |-> sp]

\* a clear() that leaves the set as it is
SparseSet_clear_kept(s) == s

SparseSet_clear(s) == [s EXCEPT !.n = 0]

(***************************************************************************)
(* internal::Cache<T>: instances holds the objects back to back, reverse    *)
(* the index of each of them, forward the place of each index.             *)
(***************************************************************************)
EmptyCache == [instances |-> << >>, forward |-> << >>, reverse |-> << >>]

Cache_contains(c, index) ==
    IF index >= Len(c.forward) THEN FALSE
    ELSE /\ c.forward[index + 1] < Len(c.reverse)
         /\ c.reverse[c.forward[index + 1] + 1] = index

Cache_size(c) == Len(c.instances)

Cache_insert(c, index, object) ==
    LET fw == IF index >= Len(c.forward) THEN Resize(c.forward, index + 1, 0)
              ELSE c.forward
    IN  [instances |-> Append(c.instances, object),
         forward   |-> [fw EXCEPT ![index + 1] = Len(c.reverse)],
         reverse   |-> Append(c.reverse, index)]

\* an erase that does not tell the moved index its new place
Cache_erase_unmoved(c, index) ==
    LET pos  == c.forward[index + 1]
        last == Len(c.instances)
        ins  == [c.instances EXCEPT ![pos + 1] = c.instances[last]]
        rev  == [c.reverse EXCEPT ![pos + 1] = c.reverse[last]]
    IN  [instances |-> SubSeq(ins, 1, last - 1),
         forward   |-> c.forward,
         reverse   |-> SubSeq(rev, 1, last - 1)]

Cache_erase(c, index) ==
    LET pos  == c.forward[index + 1]
        last == Len(c.instances)
        ins  == [c.instances EXCEPT ![pos + 1] = c.instances[last]]
        rev  == [c.reverse EXCEPT ![pos + 1] = c.reverse[last]]
        fw   == [c.forward EXCEPT ![rev[last] + 1] = pos]
    IN  [instances |-> SubSeq(ins, 1, last - 1),
         forward   |-> fw,
         reverse   |-> SubSeq(rev, 1, last - 1)]

Cache_get(c, index) == c.instances[c.forward[index + 1] + 1]

(***************************************************************************)
(* internal::Pool<C>: a pool is the vector `components`.                    *)
(***************************************************************************)
Pool_contains(p, index) == index < Len(p)

\* expand that stops one short of index n
Pool_expand_short(p, n) == Resize(p, n, DefaultValue)

\* an expand that does not carry the components over to the larger storage
Pool_expand_emptied(p, n) == [k \in 1 .. (n + 1) |-> DefaultValue]

Pool_expand(p, n) == Resize(p, n + 1, DefaultValue)

Pool_insert(p, index, component) ==
    LET q == IF ~Pool_contains(p, index) THEN Pool_expand(p, index) ELSE p
    IN  [q EXCEPT ![index + 1] = component]

\* a replace() that writes the pool's last component
Pool_replace_last(p, index, component) == [p EXCEPT ![Len(p)] = component]

Pool_replace(p, index, component) == [p EXCEPT ![index + 1] = component]

Pool_at(p, index) == p[index + 1]

(***************************************************************************)
(* Entity handles and the read-only calls.                                  *)
(***************************************************************************)
EntityID(index, version) == [index |-> index, version |-> version]

valid_id(id) == index_versions[id.index + 1] = id.version

\* Entity::valid() of a handle the manager returned
Entity_valid(e) == valid_id(e)

\* Entity(): no manager, and INVALID_ID, whose m_number is 0
DefaultEntity == [manager |-> FALSE, index |-> 0, version |-> 0]

\* Entity::valid(): manager && manager->valid_id(uid)
Entity_valid_of(handle) ==
    IF ~handle.manager THEN FALSE
    ELSE valid_id(EntityID(handle.index, handle.version))

\* the handle refers to a slot the slot vectors have; valid_id of any other
\* handle reads past the end of index_versions
InRange(e) == e.index < Len(index_versions)

\* the handles a caller can hold and use without tripping an assertion
ValidHandles == { e \in issued : InRange(e) /\ Entity_valid(e) }

\* the part of the manager that the component calls read and write
Manager ==
    [masks |-> masks, component_pools |-> component_pools, index_caches |-> index_caches]

has_component(index, family) == family \in masks[index + 1]

get_component(m, index, family) ==
    Pool_at(m.component_pools[family + 1].components, index)

component_mask_for(index) == masks[index + 1]

marked_for_destruction(index) == SparseSet_contains(indices_to_destroy, index)

contains_cache_for(caches, sig) == sig \in DOMAIN caches

\* size() taken for the length of the slot vectors
size_of_masks == Len(masks)

size == Len(masks) - Len(free_indices)

\* the capacity std::vector takes when it reallocates for one more element: one
\* and a half times the old one (half) or twice the old one, and at least one more
vector_grown(half, cap) ==
    LET grown == IF half THEN cap + (cap \div 2) ELSE 2 * cap
    IN  IF grown < cap + 1 THEN cap + 1 ELSE grown

\* the capacity of a vector that n push_back calls have filled
RECURSIVE vector_capacity(_, _)
vector_capacity(half, n) ==
    IF n = 0 THEN 0
    ELSE LET cap == vector_capacity(half, n - 1)
         IN  IF n - 1 < cap THEN cap ELSE vector_grown(half, cap)

\* capacity() is masks.capacity(): masks grows by push_back alone
capacity(half) == vector_capacity(half, Len(masks))

number_of_reusable_entities == Len(free_indices)

number_of_entities_to_destroy == SparseSet_size(indices_to_destroy)

number_of_entities_with(m, sig) ==
    IF contains_cache_for(m.index_caches, sig) THEN SparseSet_size(m.index_caches[sig])
    ELSE Cardinality({ k \in 1 .. Len(m.masks) : (m.masks[k] \cap sig) = sig })

(***************************************************************************)
(* EntityManager: the helpers that keep the index caches coherent.          *)
(***************************************************************************)
\* the SparseSet built by create_cache_for: a scan of masks in index order
RECURSIVE create_cache_scan(_, _, _, _)
create_cache_scan(ms, sig, i, indices) ==
    IF i >= Len(ms) THEN indices
    ELSE create_cache_scan(ms, sig, i + 1,
            IF (ms[i + 1] \cap sig) = sig THEN SparseSet_insert(indices, i)
            ELSE indices)

create_cache_for(caches, ms, sig) ==
    [s \in (DOMAIN caches) \cup {sig} |->
        IF s = sig THEN create_cache_scan(ms, sig, 0, EmptySparseSet) ELSE caches[s]]

\* add_component without its cache loop
add_component_caches_skipped(caches, mask, index, family) == caches

\* the loop at the end of add_component; mask already has the family bit set
add_component_caches(caches, mask, index, family) ==
    [sig \in DOMAIN caches |->
        IF family \in sig /\ (mask \cap sig) = sig
        THEN SparseSet_insert(caches[sig], index)
        ELSE caches[sig]]

\* remove_component without its cache loop
remove_component_caches_skipped(caches, mask, index, family) == caches

\* the loop of remove_component; mask still has the family bit set
remove_component_caches(caches, mask, index, family) ==
    [sig \in DOMAIN caches |->
        IF family \in sig /\ (mask \cap sig) = sig
        THEN SparseSet_erase(caches[sig], index)
        ELSE caches[sig]]

\* a flush that leaves the caches alone
erase_caches_for_skipped(caches, mask, index) == caches

erase_caches_for(caches, mask, index) ==
    [sig \in DOMAIN caches |->
        IF (mask \cap sig) = sig
        THEN SparseSet_erase(caches[sig], index)
        ELSE caches[sig]]

\* the cache loop of create_copy_of; mask is the mask copied from the original
create_copy_caches(caches, mask, clone_index) ==
    [sig \in DOMAIN caches |->
        IF (sig \cap mask) = sig
        THEN SparseSet_insert(caches[sig], clone_index)
        ELSE caches[sig]]

\* assert(!contains(v)) of every SparseSet::insert that turned caches into new_caches
InsertAssertsHold(caches, new_caches, index) ==
    \A sig \in DOMAIN caches :
        new_caches[sig] # caches[sig] => ~SparseSet_contains(caches[sig], index)

\* assert(contains(v)) of every SparseSet::erase that turned caches into new_caches
EraseAssertsHold(caches, new_caches, index) ==
    \A sig \in DOMAIN caches :
        new_caches[sig] # caches[sig] => SparseSet_contains(caches[sig], index)

\* assert(contains(v)) of the erases in the loop of remove_component, before
\* any of them is made; mask still has the family bit set
remove_asserts_hold(caches, mask, index, family) ==
    \A sig \in DOMAIN caches :
        (family \in sig /\ (mask \cap sig) = sig) =>
            SparseSet_contains(caches[sig], index)

\* a flush that does not touch the version
next_version_kept(version) == version

\* index_versions[index]++ on a counter of VersionBits bits
next_version(version) == (version + 1) % VersionMod

\* destroy(index) without the contains() test
destroy_index_unchecked(pending, index) == SparseSet_insert(pending, index)

\* the body of EntityManager::destroy(index) on indices_to_destroy
destroy_index(pending, index) ==
    IF ~SparseSet_contains(pending, index) THEN SparseSet_insert(pending, index)
    ELSE pending

\* component_pools once add_component has made sure the pool exists and has
\* inserted the component
add_component_pools(pools, index, family, component) ==
    LET p1 == IF family >= Len(pools) THEN Resize(pools, family + 1, NoPool) ELSE pools
        p2 == IF ~p1[family + 1].made THEN [p1 EXCEPT ![family + 1] = NewPool] ELSE p1
    IN  [p2 EXCEPT ![family + 1].components = Pool_insert(@, index, component)]

add_component(m, index, family, component) ==
    LET mask == m.masks[index + 1] \cup {family}
    IN  [masks           |-> [m.masks EXCEPT ![index + 1] = mask],
         component_pools |-> add_component_pools(m.component_pools, index, family, component),
         index_caches    |-> add_component_caches(m.index_caches, mask, index, family)]

replace_component(m, index, family, component) ==
    [m EXCEPT !.component_pools[family + 1].components = Pool_replace(@, index, component)]

remove_component(m, index, family) ==
    LET mask == m.masks[index + 1]
    IN  [masks           |-> [m.masks EXCEPT ![index + 1] = mask \ {family}],
         component_pools |-> m.component_pools,
         index_caches    |-> remove_component_caches(m.index_caches, mask, index, family)]

\* component_pools after the component loop of create_copy_of.  When the pool
\* has to grow to reach clone_index, Pool::insert resizes `components` while
\* its argument still refers to components[original_index]: after the
\* reallocation the reference dangles and the value read through it is
\* whatever the freed storage holds (read[family]).
create_copy_pools(pools, mask, clone_index, original_index, read) ==
    [k \in 1 .. Len(pools) |->
        IF (k - 1) \in mask
        THEN [pools[k] EXCEPT !.components =
                Pool_insert(@, clone_index,
                    IF Pool_contains(@, clone_index) THEN Pool_at(@, original_index)
                    ELSE read[k - 1])]
        ELSE pools[k]]

(***************************************************************************)
(* The family ids of the component types: internal::Component<Derived>     *)
(* (internal/component.h), which EntityManager uses, and Component<Derived> *)
(* with util::mask_for (component.h).                                       *)
(***************************************************************************)
\* the component types of a program: one more than a build allows
ComponentTypes == 0 .. MAX_COMPONENTS

\* the template argument lists <A> and <A, B>
TypeLists == { << A >> : A \in ComponentTypes } \cup
             { << A, B >> : A, B \in ComponentTypes }

\* a registry: the counter and the ids handed to the types so far; asserts is
\* FALSE once a call has not returned (failed assertion, uncaught exception)
Registry(counter, ids) == [counter |-> counter, ids |-> ids, asserts |-> TRUE]

\* a family() whose family_id is not static: every call takes family_counter++
internal_Component_family_fresh(reg, type) ==
    [family_id |-> reg.counter,
     reg |-> [counter |-> reg.counter + 1,
              ids |-> [t \in (DOMAIN reg.ids) \cup {type} |->
                            IF t = type THEN reg.counter ELSE reg.ids[t]],
              asserts |-> reg.asserts /\ reg.counter < MAX_COMPONENTS]]

\* internal::Component<type>::family(): the first call takes family_counter++ for
\* the static family_id; every call asserts family_id < MAX_COMPONENTS
internal_Component_family(reg, type) ==
    IF type \in DOMAIN reg.ids
    THEN [family_id |-> reg.ids[type],
          reg |-> [reg EXCEPT !.asserts = @ /\ reg.ids[type] < MAX_COMPONENTS]]
    ELSE [family_id |-> reg.counter,
          reg |-> [counter |-> reg.counter + 1,
                   ids |-> [t \in (DOMAIN reg.ids) \cup {type} |->
                                IF t = type THEN reg.counter ELSE reg.ids[t]],
                   asserts |-> reg.asserts /\ reg.counter < MAX_COMPONENTS]]

\* Component<type>::family() of component.h: every call asserts
\* m_family <= MAX_COMPONENT_TYPES, then the first one takes m_family++
Component_family(reg, type) ==
    IF type \in DOMAIN reg.ids
    THEN [family_id |-> reg.ids[type],
          reg |-> [reg EXCEPT !.asserts = @ /\ reg.counter <= MAX_COMPONENTS]]
    ELSE [family_id |-> reg.counter,
          reg |-> [counter |-> reg.counter + 1,
                   ids |-> [t \in (DOMAIN reg.ids) \cup {type} |->
                                IF t = type THEN reg.counter ELSE reg.ids[t]],
                   asserts |-> reg.asserts /\ reg.counter <= MAX_COMPONENTS]]

\* a set() that drops the bits set before
mask_set_only(r, family) ==
    [mask |-> {family},
     reg |-> [r.reg EXCEPT !.asserts = @ /\ family < MAX_COMPONENTS]]

\* ComponentMask::set(family): std::bitset throws when family is out of range
mask_set(r, family) ==
    [mask |-> r.mask \cup {family},
     reg |-> [r.reg EXCEPT !.asserts = @ /\ family < MAX_COMPONENTS]]

\* EntityManager::signature_for<Components...>(): the fold
\* (mask.set(component_family_for<Components>()), ...) from types[k] on
RECURSIVE signature_for_fold(_, _, _)
signature_for_fold(r, types, k) ==
    IF k > Len(types) THEN r
    ELSE LET f == internal_Component_family(r.reg, types[k])
         IN  signature_for_fold(mask_set([mask |-> r.mask, reg |-> f.reg], f.family_id),
                                types, k + 1)

signature_for(reg, types) == signature_for_fold([mask |-> {}, reg |-> reg], types, 1)

\* util::mask_for<Components...>(): the arguments mask.set(Components::family())
\* of the call are evaluated in an order the compiler chooses, here order
RECURSIVE mask_for_fold(_, _, _, _)
mask_for_fold(r, types, order, k) ==
    IF k > Len(types) THEN r
    ELSE LET f == Component_family(r.reg, types[order[k]])
         IN  mask_for_fold(mask_set([mask |-> r.mask, reg |-> f.reg], f.family_id),
                           types, order, k + 1)

mask_for(reg, types, order) == mask_for_fold([mask |-> {}, reg |-> reg], types, order, 1)

\* the orders in which n arguments can be evaluated
Orders(n) == { o \in [1 .. n -> 1 .. n] : \A i, j \in 1 .. n : o[i] = o[j] => i = j }


(***************************************************************************)
(* The calls.  Every call made through an Entity handle asserts that the    *)
(* handle is valid and that the component is (not) there; a call whose      *)
(* assertion fails does not return and is not a step.                       *)
(***************************************************************************)
\* no par_for_entities_with is in progress
NoPass ==
    [active |-> FALSE, sig |-> {}, write |-> [v \in Values |-> v],
     status |-> << >>, before |-> << >>, visits |-> << >>]

Init ==
    /\ masks = << >>
    /\ index_versions = << >>
    /\ free_indices = << >>
    /\ indices_to_destroy = EmptySparseSet
    /\ component_pools = << >>
    /\ index_caches = << >>
    /\ issued = {}
    /\ owns = << >>
    /\ family_counter = 0
    /\ family_id = << >>
    /\ BaseComponent_m_family = 0
    /\ component_family = << >>
    /\ BaseSystem_m_family = 0
    /\ system_family = << >>
    /\ systems = << >>
    /\ calls = << >>
    /\ workers = NoPass
    /\ sparse_set = EmptySparseSet
    /\ members = {}
    /\ object_cache = EmptyCache
    /\ stored = [index \in {} |-> 0]

\* Entity::ID::operator<: m_number is index | version << 32, so the version
\* decides and the index after it
ID_less(a, b) ==
    \/ a.version < b.version
    \/ a.version = b.version /\ a.index < b.index

\* a create_entity whose new slots start at version 0
NewEntity_from_zero ==
    IF free_indices = << >>
    THEN [index          |-> Len(masks),
          version        |-> 0,
          masks          |-> Append(masks, {}),
          index_versions |-> Append(index_versions, 0),
          free_indices   |-> free_indices]
    ELSE [index          |-> free_indices[Len(free_indices)],
          version        |-> index_versions[free_indices[Len(free_indices)] + 1],
          masks          |-> masks,
          index_versions |-> index_versions,
          free_indices   |-> SubSeq(free_indices, 1, Len(free_indices) - 1)]

\* a create_entity that takes the slot that has waited longest, as from the
\* front of a queue
NewEntity_first_in ==
    IF free_indices = << >>
    THEN [index          |-> Len(masks),
          version        |-> 1,
          masks          |-> Append(masks, {}),
          index_versions |-> Append(index_versions, 1),
          free_indices   |-> free_indices]
    ELSE [index          |-> free_indices[1],
          version        |-> index_versions[free_indices[1] + 1],
          masks          |-> masks,
          index_versions |-> index_versions,
          free_indices   |-> Tail(free_indices)]

\* what create_entity returns and how it leaves the slot vectors
NewEntity ==
    IF free_indices = << >>
    THEN [index          |-> Len(masks),
          version        |-> 1,
          masks          |-> Append(masks, {}),
          index_versions |-> Append(index_versions, 1),
          free_indices   |-> free_indices]
    ELSE LET index == free_indices[Len(free_indices)]
         IN  [index          |-> index,
              version        |-> index_versions[index + 1],
              masks          |-> masks,
              index_versions |-> index_versions,
              free_indices   |-> SubSeq(free_indices, 1, Len(free_indices) - 1)]

\* the model lets the slot vectors grow to MaxEntities slots
CanCreate == free_indices # << >> \/ Len(masks) < MaxEntities

GrowOwns(len) == IF Len(owns) < len THEN Append(owns, {}) ELSE owns

\* create_entity() while the slot vectors hold fewer than limit slots
create_entity_within(limit) ==
    /\ (free_indices # << >> \/ Len(masks) < limit)
    /\ LET r == NewEntity
       IN  /\ masks' = r.masks
           /\ index_versions' = r.index_versions
           /\ free_indices' = r.free_indices
           /\ issued' = issued \cup {EntityID(r.index, r.version)}
           /\ owns' = GrowOwns(Len(r.masks))
    /\ UNCHANGED << indices_to_destroy, component_pools, index_caches >>

create_entity == create_entity_within(MaxEntities)

create_copy_of(original) ==
    /\ original \in ValidHandles
    /\ CanCreate
    /\ LET r == NewEntity
           clone_index == r.index
           original_index == original.index
           ms == [r.masks EXCEPT ![clone_index + 1] = r.masks[original_index + 1]]
           mask == ms[clone_index + 1]
           caches == create_copy_caches(index_caches, mask, clone_index)
       IN  /\ InsertAssertsHold(index_caches, caches, clone_index)
           /\ masks' = ms
           /\ index_versions' = r.index_versions
           /\ free_indices' = r.free_indices
           /\ index_caches' = caches
           /\ \E read \in [Families -> Values] :
                /\ \A f \in Families : read[f] \in ComponentValues(f)
                /\ component_pools' = create_copy_pools(component_pools, mask,
                                        clone_index, original_index, read)
           /\ issued' = issued \cup {EntityID(r.index, r.version)}
           /\ owns' = [GrowOwns(Len(ms)) EXCEPT ![clone_index + 1] =
                            @ \cup owns[original_index + 1]]
    /\ UNCHANGED << indices_to_destroy >>

\* Entity::add<C>(args...): C's family and the value the arguments build
add(e, family, component) ==
    /\ e \in ValidHandles
    /\ ~has_component(e.index, family)
    /\ LET m == add_component(Manager, e.index, family, component)
       IN  /\ InsertAssertsHold(index_caches, m.index_caches, e.index)
           /\ masks' = m.masks
           /\ component_pools' = m.component_pools
           /\ index_caches' = m.index_caches
    /\ owns' = [owns EXCEPT ![e.index + 1] = @ \cup {family}]
    /\ UNCHANGED << index_versions, free_indices, indices_to_destroy, issued >>

\* Entity::replace<C>(args...)
replace(e, family, component) ==
    /\ e \in ValidHandles
    /\ has_component(e.index, family)
    /\ Pool_contains(component_pools[family + 1].components, e.index)
    /\ component_pools' =
            replace_component(Manager, e.index, family, component).component_pools
    /\ UNCHANGED << masks, index_versions, free_indices, indices_to_destroy,
                    index_caches, issued, owns >>

\* Entity::remove<C>()
remove(e, family) ==
    /\ e \in ValidHandles
    /\ has_component(e.index, family)
    /\ LET m == remove_component(Manager, e.index, family)
       IN  /\ EraseAssertsHold(index_caches, m.index_caches, e.index)
           /\ masks' = m.masks
           /\ index_caches' = m.index_caches
    /\ owns' = [owns EXCEPT ![e.index + 1] = @ \ {family}]
    /\ UNCHANGED << index_versions, free_indices, indices_to_destroy,
                    component_pools, issued >>

\* a destroy() that invalidates the handles at once, as a flush would
destroy_at_once(e) ==
    /\ e \in ValidHandles
    /\ indices_to_destroy' = destroy_index(indices_to_destroy, e.index)
    /\ index_versions' = [index_versions EXCEPT ![e.index + 1] = next_version(@)]
    /\ UNCHANGED << masks, free_indices, component_pools, index_caches, issued, owns >>

\* a destroy() that clears the mask at once
destroy_eager(e) ==
    /\ e \in ValidHandles
    /\ indices_to_destroy' = destroy_index(indices_to_destroy, e.index)
    /\ masks' = [masks EXCEPT ![e.index + 1] = {}]
    /\ UNCHANGED << index_versions, free_indices, component_pools,
                    index_caches, issued, owns >>

\* Entity::destroy()
destroy(e) ==
    /\ e \in ValidHandles
    /\ indices_to_destroy' = destroy_index(indices_to_destroy, e.index)
    /\ UNCHANGED << masks, index_versions, free_indices, component_pools,
                    index_caches, issued, owns >>

\* the loop of EntityManager::update over indices_to_destroy, from dense[k] on
RECURSIVE update_loop(_, _, _)
update_loop(pending, k, m) ==
    IF k >= pending.n THEN m
    ELSE LET index == pending.dense[k + 1]
             mask == m.masks[index + 1]
             caches == erase_caches_for(m.index_caches, mask, index)
         IN  update_loop(pending, k + 1,
                [masks          |-> [m.masks EXCEPT ![index + 1] = {}],
                 index_versions |-> [m.index_versions EXCEPT ![index + 1] = next_version(@)],
                 free_indices   |-> Append(m.free_indices, index),
                 index_caches   |-> caches,
                 asserts        |-> m.asserts /\
                                    EraseAssertsHold(m.index_caches, caches, index)])

\* EntityManager::update(), the flush of the pending destructions
update ==
    /\ LET m == update_loop(indices_to_destroy, 0,
                    [masks |-> masks, index_versions |-> index_versions,
                     free_indices |-> free_indices, index_caches |-> index_caches,
                     asserts |-> TRUE])
       IN  /\ m.asserts
           /\ masks' = m.masks
           /\ index_versions' = m.index_versions
           /\ free_indices' = m.free_indices
           /\ index_caches' = m.index_caches
    /\ owns' = [k \in 1 .. Len(owns) |->
                    IF (k - 1) \in SparseSet_elements(indices_to_destroy)
                    THEN {} ELSE owns[k]]
    /\ indices_to_destroy' = SparseSet_clear(indices_to_destroy)
    /\ UNCHANGED << component_pools, issued >>

\* for_entities_with<First, Rest...>(f) with a visitor that only reads
for_entities_with(sig) ==
    /\ index_caches' = IF ~contains_cache_for(index_caches, sig)
                       THEN create_cache_for(index_caches, masks, sig)
                       ELSE index_caches
    /\ \A index \in SparseSet_elements(index_caches'[sig]) : \A f \in sig :
            /\ f < Len(component_pools)
            /\ component_pools[f + 1].made
            /\ Pool_contains(component_pools[f + 1].components, index)
    /\ UNCHANGED << masks, index_versions, free_indices, indices_to_destroy,
                    component_pools, issued, owns >>

\* the visitors of the model: f(entity, c, ...) assigns write[c] to the
\* component c of the family target, and changes a component of DefaultValue
Visitors == { write \in [Values -> Values] : write[DefaultValue] # DefaultValue }

\* the position in the cache taken for the index
visited_position(indices, k) == k - 1

\* for (auto index : indices): the k-th integer of [begin(), end())
visited_index(indices, k) == indices.dense[k]

\* one call f(Entity(this, Entity::ID(index, index_versions[index])),
\* get_component<First>(index), get_component<Rest>(index)...): the arguments
\* are logged, the visitor writes through its reference to the target
visit(st, sig, index, target, write) ==
    [component_pools |->
        [st.component_pools EXCEPT ![target + 1].components =
            [@ EXCEPT ![index + 1] = write[get_component(st, index, target)]]],
     visits |-> Append(st.visits,
        [index      |-> index,
         entity     |-> EntityID(index, index_versions[index + 1]),
         components |-> [g \in sig |-> get_component(st, index, g)]])]

\* the loop of for_entities_with over the cache, from its k-th integer on
RECURSIVE for_entities_loop(_, _, _, _, _, _)
for_entities_loop(indices, k, sig, target, write, st) ==
    IF k > indices.n THEN st
    ELSE for_entities_loop(indices, k + 1, sig, target, write,
            visit(st, sig, visited_index(indices, k), target, write))

\* the cache for_entities_with iterates over: made by the call if there is none
cache_of(sig) ==
    IF ~contains_cache_for(index_caches, sig)
    THEN create_cache_for(index_caches, masks, sig)
    ELSE index_caches

\* the calls of the visitor and the pools they leave
for_entities_visits(sig, target, write) ==
    for_entities_loop(cache_of(sig)[sig], 1, sig, target, write,
        [component_pools |-> component_pools, visits |-> << >>])

\* for_entities_with<First, Rest...>(f) with a visitor that writes to a component
for_entities_with_f(sig, target, write) ==
    /\ target \in sig
    /\ \A v \in Values : write[v] \in ComponentValues(target)
    /\ index_caches' = cache_of(sig)
    /\ \A index \in SparseSet_elements(cache_of(sig)[sig]) : \A f \in sig :
            /\ f < Len(component_pools)
            /\ component_pools[f + 1].made
            /\ Pool_contains(component_pools[f + 1].components, index)
    /\ component_pools' = for_entities_visits(sig, target, write).component_pools
    /\ UNCHANGED << masks, index_versions, free_indices, indices_to_destroy,
                    issued, owns >>

\* the visitors that change the structure: f(entity, ...) destroys an entity,
\* or removes a component from it if it has one, or adds one if it has none;
\* the entity is the visited one (Self) or one whose handle the visitor holds
Self == 0 - 1

StructuralVisitors ==
    { g \in [op : {"destroy", "remove", "add"},
             on : {Self} \cup (0 .. (MaxEntities - 1)),
             family : Families] : g.op = "destroy" => g.family = 0 }

\* the body of the visitor g called on the slot index
apply_visitor(st, g, index) ==
    LET t == IF g.on = Self THEN index ELSE g.on
        m == [masks |-> st.masks, component_pools |-> st.component_pools,
              index_caches |-> st.index_caches]
    IN  IF g.op = "destroy"
        THEN [st EXCEPT !.pending = destroy_index(@, t)]
        ELSE IF g.op = "remove" /\ g.family \in st.masks[t + 1]
        THEN IF ~remove_asserts_hold(m.index_caches, st.masks[t + 1], t, g.family)
             THEN [st EXCEPT !.asserts = FALSE]
             ELSE LET r == remove_component(m, t, g.family)
                  IN  [st EXCEPT !.masks = r.masks,
                                 !.index_caches = r.index_caches]
        ELSE IF g.op = "add" /\ g.family \notin st.masks[t + 1]
        THEN LET r == add_component(m, t, g.family, DefaultValue)
             IN  [st EXCEPT !.masks = r.masks,
                            !.component_pools = r.component_pools,
                            !.index_caches = r.index_caches,
                            !.asserts = @ /\ InsertAssertsHold(m.index_caches,
                                                    r.index_caches, t)]
        ELSE st

\* dense.resize(n + 1) of an insert into the cache of sig: the iterators of the
\* loop over that cache refer to the storage the vector had before
resized(caches, new_caches, sig) ==
    Len(new_caches[sig].dense) > Len(caches[sig].dense)

\* the end() that the range-based for took before the first call
pass_end(st, sig, end) == end

\* the loop for (auto index : indices) of for_entities_with with the visitor g,
\* from the k-th position of the cache on; end is the size the cache had when
\* the loop began, reads[k] is what *it yields once the iterators dangle
RECURSIVE for_entities_pass(_, _, _, _, _, _)
for_entities_pass(sig, g, reads, k, end, st) ==
    IF k > pass_end(st, sig, end) THEN st
    ELSE LET index == IF st.dangling THEN reads[k]
                      ELSE visited_index(st.index_caches[sig], k)
             called == [st EXCEPT !.visits = Append(@,
                            [index |-> index, mask |-> st.masks[index + 1]])]
             after == apply_visitor(called, g, index)
         IN  for_entities_pass(sig, g, reads, k + 1, end,
                [after EXCEPT !.dangling =
                    @ \/ resized(st.index_caches, after.index_caches, sig)])

\* the state a pass of for_entities_with starts from
pass_begin(sig) ==
    [masks |-> masks, component_pools |-> component_pools,
     index_caches |-> cache_of(sig), pending |-> indices_to_destroy,
     visits |-> << >>, dangling |-> FALSE, asserts |-> TRUE]

\* what the pass leaves and the calls it has made
for_entities_mutating(sig, g, reads) ==
    for_entities_pass(sig, g, reads, 1, cache_of(sig)[sig].n, pass_begin(sig))

\* the slots that are not on the free list
LiveSlots == { i \in 0 .. (Len(masks) - 1) : \A k \in 1 .. Len(free_indices) : free_indices[k] # i }

\* the positions read from the cache itself
NoReads(sig) == [k \in 1 .. cache_of(sig)[sig].n |-> 0]

\* the values the loop may read at the positions of the cache: what is read
\* through a dangling iterator is taken for the index of some slot in use
Reads(sig, g) ==
    IF for_entities_mutating(sig, g, NoReads(sig)).dangling
    THEN [1 .. cache_of(sig)[sig].n -> LiveSlots]
    ELSE {NoReads(sig)}

\* the handle the visitor holds is valid
HoldsValid(g) == g.on # Self => \E h \in ValidHandles : h.index = g.on

\* for_entities_with<First, Rest...>(f) with a visitor that changes the structure
for_entities_with_g(sig, g, reads) ==
    /\ HoldsValid(g)
    /\ LET st == for_entities_mutating(sig, g, reads)
       IN  /\ st.asserts
           /\ st.dangling \/ reads = NoReads(sig)
           /\ masks' = st.masks
           /\ component_pools' = st.component_pools
           /\ index_caches' = st.index_caches
           /\ indices_to_destroy' = st.pending
           /\ owns' = st.masks
    /\ UNCHANGED << index_versions, free_indices, issued >>

\* the visitors that remove a component from one entity and add one to another
\* entity in the same call, through handles they hold: << the removal, the
\* addition >>
PassVisitors ==
    { gs \in [op : {"remove"}, on : 0 .. (MaxSlots - 1), family : {0}]
                \X [op : {"add"}, on : 0 .. (MaxSlots - 1), family : {0}] :
        gs[1].on # gs[2].on }

\* the slots whose mask includes the signature
matching_in(ms, sig) == { i \in 0 .. (Len(ms) - 1) : (ms[i + 1] \cap sig) = sig }

\* the loop for (auto index : indices) of for_entities_with with a visitor of
\* PassVisitors; kept holds the slots whose mask has included the signature at
\* every moment of the pass so far
RECURSIVE for_entities_pass_both(_, _, _, _, _, _)
for_entities_pass_both(sig, gs, reads, k, end, st) ==
    IF k > pass_end(st, sig, end) THEN st
    ELSE LET index == IF st.dangling THEN reads[k]
                      ELSE visited_index(st.index_caches[sig], k)
             called == [st EXCEPT !.visits = Append(@,
                            [index |-> index, mask |-> st.masks[index + 1]])]
             removed == apply_visitor(called, gs[1], index)
             after == apply_visitor(removed, gs[2], index)
         IN  for_entities_pass_both(sig, gs, reads, k + 1, end,
                [after EXCEPT
                    !.dangling = @ \/ resized(st.index_caches, after.index_caches, sig),
                    !.kept = (@ \cap matching_in(removed.masks, sig))
                                \cap matching_in(after.masks, sig)])

\* what such a pass leaves and the calls it has made
for_entities_both(sig, gs, reads) ==
    for_entities_pass_both(sig, gs, reads, 1, cache_of(sig)[sig].n,
        [masks |-> masks, component_pools |-> component_pools,
         index_caches |-> cache_of(sig), pending |-> indices_to_destroy,
         visits |-> << >>, dangling |-> FALSE, asserts |-> TRUE,
         kept |-> matching_in(masks, sig)])

\* the handles the visitor holds are valid
HoldBothValid(gs) == HoldsValid(gs[1]) /\ HoldsValid(gs[2])

\* the values the loop may read at the positions of the cache
ReadsBoth(sig, gs) ==
    IF for_entities_both(sig, gs, NoReads(sig)).dangling
    THEN [1 .. cache_of(sig)[sig].n -> LiveSlots]
    ELSE {NoReads(sig)}

\* for_entities_with<First, Rest...>(f) with a visitor of PassVisitors
for_entities_with_both(sig, gs, reads) ==
    /\ HoldBothValid(gs)
    /\ LET st == for_entities_both(sig, gs, reads)
       IN  /\ st.asserts
           /\ st.dangling \/ reads = NoReads(sig)
           /\ masks' = st.masks
           /\ component_pools' = st.component_pools
           /\ index_caches' = st.index_caches
           /\ indices_to_destroy' = st.pending
           /\ owns' = st.masks
    /\ UNCHANGED << index_versions, free_indices, issued >>

\* the visitors of the earlier for_each_entity_with: f(entity) removes a
\* component from an entity or adds one to it
EachVisitors == { g \in StructuralVisitors : g.op # "destroy" }

\* entity_caches.emplace(signature, search_cache): a signature already in the
\* map keeps its cache
emplace(caches, sig, cache) ==
    [s \in (DOMAIN caches) \cup {sig} |->
        IF s \in DOMAIN caches THEN caches[s] ELSE cache]

\* the else branch of for_each_entity_with: the scan of masks that fills
\* search_cache and calls f on every match, and the emplace after the loop.
\* Cache<Entity> is kept as the sparse set of its indices (reverse is dense,
\* forward is sparse)
RECURSIVE for_each_scan(_, _, _, _, _)
for_each_scan(sig, g, i, search_cache, st) ==
    IF i >= Len(st.masks)
    THEN [st EXCEPT !.index_caches = emplace(@, sig, search_cache)]
    ELSE IF (st.masks[i + 1] \cap sig) = sig
    THEN LET called == [st EXCEPT !.visits = Append(@,
                            [index |-> i, mask |-> st.masks[i + 1]])]
         IN  for_each_scan(sig, g, i + 1, SparseSet_insert(search_cache, i),
                           apply_visitor(called, g, i))
    ELSE for_each_scan(sig, g, i + 1, search_cache, st)

\* what for_each_entity_with<First, Rest...>(f) leaves: the loop over the cache
\* of the signature if there is one, the scan if there is none
for_each_entity_visits(sig, g, reads) ==
    IF contains_cache_for(index_caches, sig)
    THEN for_entities_mutating(sig, g, reads)
    ELSE for_each_scan(sig, g, 0, EmptySparseSet,
            [masks |-> masks, component_pools |-> component_pools,
             index_caches |-> index_caches, pending |-> indices_to_destroy,
             visits |-> << >>, dangling |-> FALSE, asserts |-> TRUE])

\* for_each_entity_with<First, Rest...>(f) of the earlier EntityManager
for_each_entity_with(sig, g, reads) ==
    /\ HoldsValid(g)
    /\ LET st == for_each_entity_visits(sig, g, reads)
       IN  /\ st.asserts
           /\ st.dangling \/ reads = NoReads(sig)
           /\ masks' = st.masks
           /\ component_pools' = st.component_pools
           /\ index_caches' = st.index_caches
           /\ indices_to_destroy' = st.pending
           /\ owns' = st.masks
    /\ UNCHANGED << index_versions, free_indices, issued >>

\* the flush leaves every version counter at MaxVersion or below
BelowMaxVersion ==
    \A index \in SparseSet_elements(indices_to_destroy) :
        index_versions[index + 1] < MaxVersion

Next ==
    \/ /\ create_entity
       /\ UNCHANGED other_vars
    \/ /\ \E original \in issued : create_copy_of(original)
       /\ UNCHANGED other_vars
    \/ /\ \E e \in issued, family \in Families : \E component \in ComponentValues(family) :
               add(e, family, component)
       /\ UNCHANGED other_vars
    \/ /\ \E e \in issued, family \in Families : \E component \in ComponentValues(family) :
               replace(e, family, component)
       /\ UNCHANGED other_vars
    \/ /\ \E e \in issued, family \in Families : remove(e, family)
       /\ UNCHANGED other_vars
    \/ /\ \E e \in issued : destroy(e)
       /\ UNCHANGED other_vars
    \/ /\ (BelowMaxVersion /\ update)
       /\ UNCHANGED other_vars
    \/ /\ \E sig \in QuerySignatures : for_entities_with(sig)
       /\ UNCHANGED other_vars

\* the executions in which no version counter passes MaxVersion
Spec == Init /\ [][Next]_vars

NextVisit ==
    \/ /\ create_entity
       /\ UNCHANGED other_vars
    \/ /\ \E e \in issued, family \in Families : \E component \in ComponentValues(family) :
               add(e, family, component)
       /\ UNCHANGED other_vars
    \/ /\ \E e \in issued, family \in Families : remove(e, family)
       /\ UNCHANGED other_vars
    \/ /\ \E e \in issued : destroy(e)
       /\ UNCHANGED other_vars
    \/ /\ (BelowMaxVersion /\ update)
       /\ UNCHANGED other_vars
    \/ /\ \E sig \in QuerySignatures : \E target \in sig : \E write \in Visitors :
               for_entities_with_f(sig, target, write)
       /\ UNCHANGED other_vars

\* the executions in which the visitors of for_entities_with write to components
SpecVisit == Init /\ [][NextVisit]_vars

(***************************************************************************)
(* The operations of a handle with their assertions: a call whose assertion *)
(* fails stops there.                                                       *)
(***************************************************************************)
HandleOperations ==
    {"marked_for_destruction", "destroy", "component_mask",
     "add", "replace", "remove", "has", "get"}

\* the component types the operation is called with: one stands for all where
\* the operation has no template argument
FamiliesOf(operation) ==
    IF operation \in {"marked_for_destruction", "destroy", "component_mask"}
    THEN {0} ELSE Families

\* a build in which valid() is not asserted
valid_unasserted(e) == TRUE

\* assert(valid() && "...")
valid_asserted(e) == Entity_valid(e)

\* Entity::has<C>(): its assertion, and what it returns when the assertion holds
Entity_has(e, family) ==
    [asserts |-> valid_asserted(e), value |-> has_component(e.index, family)]

\* the assertions a call of the operation passes through before it reaches
\* the manager
handle_asserts(operation, e, family) ==
    IF operation \in {"marked_for_destruction", "destroy", "component_mask", "has"}
    THEN valid_asserted(e)
    ELSE IF operation = "add"
    THEN Entity_has(e, family).asserts /\ ~Entity_has(e, family).value
    ELSE Entity_has(e, family).asserts /\ Entity_has(e, family).value

\* what the call of the manager does for the operation
handle_manager_call(operation, e, family, component) ==
    IF operation = "destroy"
    THEN /\ indices_to_destroy' = destroy_index(indices_to_destroy, e.index)
         /\ UNCHANGED << masks, index_versions, free_indices, component_pools,
                         index_caches, issued, owns >>
    ELSE IF operation = "add"
    THEN /\ LET m == add_component(Manager, e.index, family, component)
            IN  /\ masks' = m.masks
                /\ component_pools' = m.component_pools
                /\ index_caches' = m.index_caches
         /\ owns' = [owns EXCEPT ![e.index + 1] = @ \cup {family}]
         /\ UNCHANGED << index_versions, free_indices, indices_to_destroy, issued >>
    ELSE IF operation = "replace"
    THEN /\ component_pools' =
                replace_component(Manager, e.index, family, component).component_pools
         /\ UNCHANGED << masks, index_versions, free_indices, indices_to_destroy,
                         index_caches, issued, owns >>
    ELSE IF operation = "remove"
    THEN /\ LET m == remove_component(Manager, e.index, family)
            IN  /\ masks' = m.masks
                /\ index_caches' = m.index_caches
         /\ owns' = [owns EXCEPT ![e.index + 1] = @ \ {family}]
         /\ UNCHANGED << index_versions, free_indices, indices_to_destroy,
                         component_pools, issued >>
    ELSE UNCHANGED entity_vars

\* a call of an operation of the handle e
handle_call(operation, e, family, component) ==
    IF handle_asserts(operation, e, family)
    THEN handle_manager_call(operation, e, family, component)
    ELSE UNCHANGED entity_vars

NextHandle ==
    \/ /\ create_entity
       /\ UNCHANGED other_vars
    \/ /\ (BelowMaxVersion /\ update)
       /\ UNCHANGED other_vars
    \/ /\ for_entities_with({0})
       /\ UNCHANGED other_vars
    \/ /\ \E operation \in HandleOperations : \E e \in issued :
            \E family \in FamiliesOf(operation) :
                handle_call(operation, e, family, DefaultValue)
       /\ UNCHANGED other_vars

\* the executions in which the host calls the operations of any handle it has
SpecHandle == Init /\ [][NextHandle]_vars

(***************************************************************************)
(* A SparseSet used by itself: insert of an absent integer, erase of a      *)
(* present one, clear.                                                      *)
(***************************************************************************)
SetValues == 0 .. MaxSetValue

\* the integers met from begin() to end(), in that order
SparseSet_iteration(s) == [k \in 1 .. s.n |-> s.dense[k]]

set_insert(v) ==
    /\ v \notin members
    /\ sparse_set' = SparseSet_insert(sparse_set, v)
    /\ members' = members \cup {v}

set_erase(v) ==
    /\ v \in members
    /\ sparse_set' = SparseSet_erase(sparse_set, v)
    /\ members' = members \ {v}

set_clear ==
    /\ sparse_set' = SparseSet_clear(sparse_set)
    /\ members' = {}

NextSet ==
    \/ /\ \E v \in SetValues : set_insert(v)
       /\ UNCHANGED << entity_vars, registry_vars, system_vars, par_vars, cache_vars >>
    \/ /\ \E v \in SetValues : set_erase(v)
       /\ UNCHANGED << entity_vars, registry_vars, system_vars, par_vars, cache_vars >>
    \/ /\ set_clear
       /\ UNCHANGED << entity_vars, registry_vars, system_vars, par_vars, cache_vars >>

SpecSet == Init /\ [][NextSet]_vars

(***************************************************************************)
(* par_for_entities_with: std::for_each(std::execution::par, begin, end, ...) *)
(* calls the visitor on the elements of the cache from up to MaxWorkers     *)
(* threads at a time and returns when every call has returned.              *)
(***************************************************************************)
\* every invocation is handed the first element of the range
par_index_first(cache, k) == cache.dense[1]

\* the element of [begin(), end()) the k-th invocation is called on
par_index(cache, k) == cache.dense[k]

\* the component instances the k-th invocation holds references to:
\* get_component<First>(index), get_component<Rest>(index)...
par_references(w, k) ==
    { << f, par_index(index_caches[w.sig], k) >> : f \in w.sig }

Positions(w) == 1 .. Len(w.status)

Running(w) == { k \in Positions(w) : w.status[k] = "running" }

\* every invocation has been started
all_started(w) == \A k \in Positions(w) : w.status[k] # "todo"

\* every invocation has returned
all_completed(w) == \A k \in Positions(w) : w.status[k] = "done"

\* par_for_entities_with<First, Rest...>(f) up to the parallel region; the
\* visitor assigns write[c] to the First component c it is given
par_for_entities_with(sig, write) ==
    /\ ~workers.active
    /\ \A v \in Values : write[v] \in ComponentValues(0)
    /\ index_caches' = cache_of(sig)
    /\ \A index \in SparseSet_elements(cache_of(sig)[sig]) : \A f \in sig :
            /\ f < Len(component_pools)
            /\ component_pools[f + 1].made
            /\ Pool_contains(component_pools[f + 1].components, index)
    /\ workers' = [active |-> TRUE, sig |-> sig, write |-> write,
                   status |-> [k \in 1 .. cache_of(sig)[sig].n |-> "todo"],
                   before |-> component_pools, visits |-> << >>]
    /\ UNCHANGED << masks, index_versions, free_indices, indices_to_destroy,
                    component_pools, issued, owns >>

\* a thread of the parallel region calls the visitor on the k-th element
par_invoke(k) ==
    /\ workers.active
    /\ k \in Positions(workers)
    /\ workers.status[k] = "todo"
    /\ Cardinality(Running(workers)) < MaxWorkers
    /\ workers' = [workers EXCEPT !.status[k] = "running",
                        !.visits = Append(@, par_index(index_caches[workers.sig], k))]
    /\ UNCHANGED entity_vars

\* the visitor called on the k-th element writes to its component and returns
par_return(k) ==
    /\ workers.active
    /\ k \in Running(workers)
    /\ LET index == par_index(index_caches[workers.sig], k)
       IN  component_pools' =
                [component_pools EXCEPT ![1].components =
                    [@ EXCEPT ![index + 1] =
                        workers.write[get_component(Manager, index, 0)]]]
    /\ workers' = [workers EXCEPT !.status[k] = "done"]
    /\ UNCHANGED << masks, index_versions, free_indices, indices_to_destroy,
                    index_caches, issued, owns >>

\* std::for_each returns, and par_for_entities_with after it
par_join ==
    /\ workers.active
    /\ all_completed(workers)
    /\ workers' = NoPass
    /\ UNCHANGED entity_vars

\* the host calls the manager while no parallel pass is in progress
NextPar ==
    \/ /\ ~workers.active
       /\ create_entity
       /\ UNCHANGED other_vars
    \/ /\ ~workers.active
       /\ \E e \in issued, family \in Families : \E component \in ComponentValues(family) :
               add(e, family, component)
       /\ UNCHANGED other_vars
    \/ /\ ~workers.active
       /\ \E e \in issued, family \in Families : remove(e, family)
       /\ UNCHANGED other_vars
    \/ /\ \E sig \in QuerySignatures : \E write \in Visitors :
               par_for_entities_with(sig, write)
       /\ UNCHANGED << registry_vars, system_vars, set_vars, cache_vars >>
    \/ /\ \E k \in Positions(workers) : par_invoke(k)
       /\ UNCHANGED << registry_vars, system_vars, set_vars, cache_vars >>
    \/ /\ \E k \in Positions(workers) : par_return(k)
       /\ UNCHANGED << registry_vars, system_vars, set_vars, cache_vars >>
    \/ /\ par_join
       /\ UNCHANGED << registry_vars, system_vars, set_vars, cache_vars >>

\* the executions with parallel passes
SpecPar == Init /\ [][NextPar]_vars

\* the component types that hold the family ids of a signature
types_of(ids, sig) == { t \in DOMAIN ids : ids[t] \in sig }

\* get_component calls that take a fresh family id each time
lambda_families_counting(reg, types) ==
    [reg EXCEPT !.counter = @ + Cardinality(types)]

\* the registry after the calls get_component<First>(index),
\* get_component<Rest>(index)... of one invocation of the lambda: each one
\* calls component_family_for of its type
RECURSIVE lambda_families(_, _)
lambda_families(reg, types) ==
    IF types = {} THEN reg
    ELSE LET t == CHOOSE t \in types : \A u \in types : t <= u
         IN  lambda_families(internal_Component_family(reg, t).reg, types \ {t})

\* Entity::add<C>(args...) with the component type C: add_component takes the
\* family id from component_family_for<C>()
add_of_type(e, type, component) ==
    /\ LET f == internal_Component_family(Registry(family_counter, family_id), type)
       IN  /\ f.reg.asserts
           /\ component \in ComponentValues(f.family_id)
           /\ add(e, f.family_id, component)
           /\ family_counter' = f.reg.counter
           /\ family_id' = f.reg.ids
    /\ UNCHANGED << workers, BaseComponent_m_family, component_family >>

\* par_for_entities_with<First, Rest...>(f) up to the parallel region, with
\* the component types: signature_for registers them and gives the signature
par_for_entities_with_types(types, write) ==
    /\ LET r == signature_for(Registry(family_counter, family_id), types)
       IN  /\ r.reg.asserts
           /\ r.mask \in QuerySignatures
           /\ par_for_entities_with(r.mask, write)
           /\ family_counter' = r.reg.counter
           /\ family_id' = r.reg.ids
    /\ UNCHANGED << BaseComponent_m_family, component_family >>

\* a thread of the parallel region calls the lambda on the k-th element: the
\* get_component calls, then the visitor
lambda_invoke(k) ==
    /\ par_invoke(k)
    /\ LET reg == lambda_families(Registry(family_counter, family_id),
                                  types_of(family_id, workers.sig))
       IN  /\ reg.asserts
           /\ family_counter' = reg.counter
           /\ family_id' = reg.ids
    /\ UNCHANGED << BaseComponent_m_family, component_family >>

NextRegion ==
    \/ /\ ~workers.active
       /\ create_entity
       /\ UNCHANGED other_vars
    \/ /\ ~workers.active
       /\ \E e \in issued, type \in ComponentTypes : \E component \in Values :
               add_of_type(e, type, component)
       /\ UNCHANGED << system_vars, set_vars, cache_vars >>
    \/ /\ \E types \in TypeLists : \E write \in Visitors :
               par_for_entities_with_types(types, write)
       /\ UNCHANGED << system_vars, set_vars, cache_vars >>
    \/ /\ \E k \in Positions(workers) : lambda_invoke(k)
       /\ UNCHANGED << system_vars, set_vars, cache_vars >>
    \/ /\ \E k \in Positions(workers) : par_return(k)
       /\ UNCHANGED << registry_vars, system_vars, set_vars, cache_vars >>
    \/ /\ par_join
       /\ UNCHANGED << registry_vars, system_vars, set_vars, cache_vars >>

\* the executions with parallel passes in which the component types get their
\* family ids as they are first used
SpecRegion == Init /\ [][NextRegion]_vars

\* EntityManager::clear(): every container of the manager is emptied; the
\* handles handed out stay with their holders
clear ==
    /\ indices_to_destroy' = SparseSet_clear(indices_to_destroy)
    /\ free_indices' = << >>
    /\ masks' = << >>
    /\ index_versions' = << >>
    /\ component_pools' = << >>
    /\ index_caches' = << >>
    /\ owns' = << >>
    /\ UNCHANGED issued

NextClear ==
    \/ /\ create_entity
       /\ UNCHANGED other_vars
    \/ /\ \E e \in issued, family \in Families : add(e, family, DefaultValue)
       /\ UNCHANGED other_vars
    \/ /\ \E e \in issued : destroy(e)
       /\ UNCHANGED other_vars
    \/ /\ (BelowMaxVersion /\ update)
       /\ UNCHANGED other_vars
    \/ /\ \E sig \in QuerySignatures : for_entities_with(sig)
       /\ UNCHANGED other_vars
    \/ /\ clear
       /\ UNCHANGED other_vars

\* the executions in which the host clears the manager
SpecClear == Init /\ [][NextClear]_vars

\* what a call of number_of_entities_with leaves in calls: its signature and
\* the count it returned
Counted(sig) ==
    << [op |-> "number_of_entities_with", sig |-> sig,
        count |-> number_of_entities_with(Manager, sig)] >>

\* a number_of_entities_with that makes the cache of a signature it has not
\* seen, as for_entities_with does
call_number_of_entities_with_cached(sig) ==
    /\ calls' = Counted(sig)
    /\ index_caches' = cache_of(sig)
    /\ UNCHANGED << masks, index_versions, free_indices, indices_to_destroy,
                    component_pools, issued, owns >>
    /\ UNCHANGED << registry_vars, par_vars, set_vars, cache_vars, BaseSystem_m_family,
                    system_family, systems >>

\* a call of number_of_entities_with<First, Rest...>(), a const member function
call_number_of_entities_with(sig) ==
    /\ calls' = Counted(sig)
    /\ UNCHANGED entity_vars
    /\ UNCHANGED << registry_vars, par_vars, set_vars, cache_vars, BaseSystem_m_family,
                    system_family, systems >>

NextQuery ==
    \/ /\ create_entity
       /\ UNCHANGED other_vars
    \/ /\ \E e \in issued, family \in Families : add(e, family, DefaultValue)
       /\ UNCHANGED other_vars
    \/ /\ \E e \in issued, family \in Families : remove(e, family)
       /\ UNCHANGED other_vars
    \/ /\ \E sig \in QuerySignatures : for_entities_with(sig)
       /\ UNCHANGED other_vars
    \/ \E sig \in Signatures : call_number_of_entities_with(sig)

\* the executions in which the host counts the entities of a signature
SpecQuery == Init /\ [][NextQuery]_vars

\* the visitors that destroy an entity
DestroyingVisitors == { g \in StructuralVisitors : g.op = "destroy" }

NextDestroy ==
    \/ /\ create_entity
       /\ UNCHANGED other_vars
    \/ /\ \E e \in issued, family \in Families : add(e, family, DefaultValue)
       /\ UNCHANGED other_vars
    \/ /\ \E e \in issued : destroy(e)
       /\ UNCHANGED other_vars
    \/ /\ (BelowMaxVersion /\ update)
       /\ UNCHANGED other_vars
    \/ /\ \E sig \in QuerySignatures : \E g \in DestroyingVisitors :
            /\ HoldsValid(g)
            /\ for_entities_with_g(sig, g, NoReads(sig))
       /\ UNCHANGED other_vars

\* the executions in which the host and the visitors of for_entities_with
\* destroy entities
SpecDestroy == Init /\ [][NextDestroy]_vars

NextMutate ==
    \/ /\ create_entity
       /\ UNCHANGED other_vars
    \/ /\ \E e \in issued, family \in Families : add(e, family, DefaultValue)
       /\ UNCHANGED other_vars
    \/ /\ \E sig \in QuerySignatures : \E g \in StructuralVisitors :
            /\ HoldsValid(g)
            /\ \E reads \in Reads(sig, g) : for_entities_with_g(sig, g, reads)
       /\ UNCHANGED other_vars

\* the executions in which the visitors of for_entities_with add and remove
\* components and destroy entities
SpecMutate == Init /\ [][NextMutate]_vars

NextPass ==
    \/ /\ create_entity_within(MaxSlots)
       /\ UNCHANGED other_vars
    \/ /\ \E e \in issued, family \in Families : add(e, family, DefaultValue)
       /\ UNCHANGED other_vars
    \/ /\ \E sig \in QuerySignatures : \E gs \in PassVisitors :
            /\ HoldBothValid(gs)
            /\ \E reads \in ReadsBoth(sig, gs) : for_entities_with_both(sig, gs, reads)
       /\ UNCHANGED other_vars

\* the executions in which a visitor of for_entities_with removes a component
\* from one entity and adds one to another, over up to MaxSlots slots
SpecPass == Init /\ [][NextPass]_vars

NextEach ==
    \/ /\ create_entity
       /\ UNCHANGED other_vars
    \/ /\ \E e \in issued, family \in Families : add(e, family, DefaultValue)
       /\ UNCHANGED other_vars
    \/ /\ \E sig \in QuerySignatures : \E g \in EachVisitors :
            /\ HoldsValid(g)
            /\ \E reads \in Reads(sig, g) : for_each_entity_with(sig, g, reads)
       /\ UNCHANGED other_vars

\* the executions of the earlier EntityManager, whose for_each_entity_with
\* registers the cache it builds after the pass
SpecEach == Init /\ [][NextEach]_vars

\* the model lets free_indices grow to MaxReusable entries
CanFlush == Len(free_indices) + number_of_entities_to_destroy <= MaxReusable

NextWrap ==
    \/ /\ create_entity
       /\ UNCHANGED other_vars
    \/ /\ \E original \in issued : create_copy_of(original)
       /\ UNCHANGED other_vars
    \/ /\ \E e \in issued : destroy(e)
       /\ UNCHANGED other_vars
    \/ /\ (CanFlush /\ update)
       /\ UNCHANGED other_vars

\* the life cycle of the slots alone, with any number of flushes of a slot:
\* the version counters overflow
SpecWrap == Init /\ [][NextWrap]_vars

NextCount ==
    \/ /\ create_entity_within(MaxSlots)
       /\ UNCHANGED other_vars
    \/ /\ \E e \in issued : destroy(e)
       /\ UNCHANGED other_vars
    \/ /\ (BelowMaxVersion /\ update)
       /\ UNCHANGED other_vars

\* the life cycle of up to MaxSlots slots, for the counts of the manager
SpecCount == Init /\ [][NextCount]_vars

\* EntityManager::component_family_for<C>()
component_family_for(type) ==
    /\ LET f == internal_Component_family(Registry(family_counter, family_id), type)
       IN  /\ f.reg.asserts
           /\ family_counter' = f.reg.counter
           /\ family_id' = f.reg.ids
    /\ UNCHANGED << entity_vars, system_vars, par_vars, set_vars, cache_vars, BaseComponent_m_family, component_family >>

\* a call of EntityManager::signature_for<Components...>()
call_signature_for(types) ==
    /\ LET r == signature_for(Registry(family_counter, family_id), types)
       IN  /\ r.reg.asserts
           /\ family_counter' = r.reg.counter
           /\ family_id' = r.reg.ids
    /\ UNCHANGED << entity_vars, system_vars, par_vars, set_vars, cache_vars, BaseComponent_m_family, component_family >>

\* a call of Component<Derived>::family() of component.h
call_Component_family(type) ==
    /\ LET f == Component_family(Registry(BaseComponent_m_family, component_family), type)
       IN  /\ f.reg.asserts
           /\ BaseComponent_m_family' = f.reg.counter
           /\ component_family' = f.reg.ids
    /\ UNCHANGED << entity_vars, system_vars, par_vars, set_vars, cache_vars, family_counter, family_id >>

\* a call of util::mask_for<Components...>()
call_mask_for(types) ==
    /\ \E order \in Orders(Len(types)) :
        LET r == mask_for(Registry(BaseComponent_m_family, component_family), types, order)
        IN  /\ r.reg.asserts
            /\ BaseComponent_m_family' = r.reg.counter
            /\ component_family' = r.reg.ids
    /\ UNCHANGED << entity_vars, system_vars, par_vars, set_vars, cache_vars, family_counter, family_id >>

NextFamily ==
    \/ \E type \in ComponentTypes : component_family_for(type)
    \/ \E types \in TypeLists : call_signature_for(types)
    \/ \E type \in ComponentTypes : call_Component_family(type)
    \/ \E types \in TypeLists : call_mask_for(types)

\* the registration of the component types, in any order
SpecFamily == Init /\ [][NextFamily]_vars

(***************************************************************************)
(* SystemManager (system.inl) and the family ids of the system types        *)
(* (system.h).                                                              *)
(***************************************************************************)
SystemTypes == 0 .. (NumSystems - 1)

\* a null std::shared_ptr<BaseSystem>
NullSystem == {}

\* System<type>::family(): the first call takes m_family++ for the static
\* system_family
System_family(reg, type) ==
    IF type \in DOMAIN reg.ids
    THEN [family_id |-> reg.ids[type], reg |-> reg]
    ELSE [family_id |-> reg.counter,
          reg |-> [counter |-> reg.counter + 1,
                   ids |-> [t \in (DOMAIN reg.ids) \cup {type} |->
                                IF t = type THEN reg.counter ELSE reg.ids[t]],
                   asserts |-> reg.asserts]]

\* SystemManager::system_family_for<S>()
system_family_for(reg, type) == System_family(reg, type)

\* SystemManager::has<S>()
SystemManager_has(sys, reg, type) ==
    LET family == system_family_for(reg, type).family_id
    IN  IF family >= Len(sys) THEN FALSE ELSE sys[family + 1] # NullSystem

has_system(type) ==
    SystemManager_has(systems, Registry(BaseSystem_m_family, system_family), type)

\* SystemManager::fetch_system<S>(), once has<S>() is asserted
fetch_system(sys, reg, type) == sys[system_family_for(reg, type).family_id + 1]

\* SystemManager::get<S>()
SystemManager_get(type) ==
    fetch_system(systems, Registry(BaseSystem_m_family, system_family), type)

\* the vector of SystemManager::add<S>: resized to reach family, a new S stored
systems_add(sys, family, type) ==
    [(IF family >= Len(sys) THEN Resize(sys, family + 1, NullSystem) ELSE sys)
        EXCEPT ![family + 1] = {type}]

\* a remove() that resets every system
systems_remove_all(sys, family) == [k \in 1 .. Len(sys) |-> NullSystem]

\* the vector of SystemManager::remove<S>: systems[family].reset()
systems_remove(sys, family) == [sys EXCEPT ![family + 1] = NullSystem]

\* SystemManager::add<S>(args...)
SystemManager_add(type) ==
    /\ ~has_system(type)
    /\ LET f == system_family_for(Registry(BaseSystem_m_family, system_family), type)
       IN  /\ BaseSystem_m_family' = f.reg.counter
           /\ system_family' = f.reg.ids
           /\ systems' = systems_add(systems, f.family_id, type)
    /\ UNCHANGED << entity_vars, registry_vars, par_vars, set_vars, cache_vars, calls >>

\* SystemManager::remove<S>()
SystemManager_remove(type) ==
    /\ has_system(type)
    /\ LET f == system_family_for(Registry(BaseSystem_m_family, system_family), type)
       IN  /\ BaseSystem_m_family' = f.reg.counter
           /\ system_family' = f.reg.ids
           /\ systems' = systems_remove(systems, f.family_id)
    /\ UNCHANGED << entity_vars, registry_vars, par_vars, set_vars, cache_vars, calls >>

\* a call of SystemManager::has<S>(): S gets its family id if it has none
call_has(type) ==
    /\ LET f == system_family_for(Registry(BaseSystem_m_family, system_family), type)
       IN  /\ BaseSystem_m_family' = f.reg.counter
           /\ system_family' = f.reg.ids
    /\ UNCHANGED << entity_vars, registry_vars, par_vars, set_vars, cache_vars, systems, calls >>

\* a call of SystemManager::get<S>()
call_get(type) ==
    /\ has_system(type)
    /\ SystemManager_get(type) # NullSystem
    /\ UNCHANGED vars

\* the handles that are valid while the version counters are versions
ValidIn(versions) == { h \in issued : versions[h.index + 1] = h.version }

\* what one update of the systems has done so far: the marks and the calls
\* system->update(entity_manager, dt) of a system that destroys the entities of
\* destroyed, of which there is at most one
system_update(st, system, destroyed) ==
    [pending |-> IF destroyed = {} THEN st.pending
                 ELSE destroy_index(st.pending, (CHOOSE h \in destroyed : TRUE).index),
     calls   |-> Append(st.calls,
                    [system    |-> system,
                     valid     |-> ValidIn(index_versions),
                     marked    |-> SparseSet_elements(st.pending),
                     destroyed |-> destroyed])]

\* the loop over the systems to update, from list[k] on: a null one is skipped
RECURSIVE run_systems(_, _, _, _)
run_systems(list, destroys, k, st) ==
    IF k > Len(list) THEN st
    ELSE run_systems(list, destroys, k + 1,
            IF list[k] # NullSystem THEN system_update(st, list[k], destroys[k]) ELSE st)

\* what the systems of a list may destroy: each at most one valid entity
Destroys(list) ==
    { d \in [1 .. Len(list) -> { D \in SUBSET ValidHandles : Cardinality(D) <= 1 }] :
        \A k \in 1 .. Len(list) : list[k] = NullSystem => d[k] = {} }

\* the systems of update_all in the order of the loop, last to first
systems_reversed(sys) == [k \in 1 .. Len(sys) |-> sys[Len(sys) + 1 - k]]

\* the systems update_all loops over: the vector, in its order
systems_in_order(sys) == sys

\* the systems of update<First, Rest...> in the order of the vector
fetch_systems_sorted(sys, reg, types) ==
    SelectSeq(sys, LAMBDA x : \E k \in 1 .. Len(types) : x = fetch_system(sys, reg, types[k]))

\* { fetch_system<First>(), fetch_system<Rest>()... }
fetch_systems(sys, reg, types) ==
    [k \in 1 .. Len(types) |-> fetch_system(sys, reg, types[k])]

\* the systems of list are run and entity_manager.update() after them
run_and_flush(list, destroys) ==
    LET st == run_systems(list, destroys, 1,
                    [pending |-> indices_to_destroy, calls |-> << >>])
        m == update_loop(st.pending, 0,
                    [masks |-> masks, index_versions |-> index_versions,
                     free_indices |-> free_indices, index_caches |-> index_caches,
                     asserts |-> TRUE])
    IN  /\ \A index \in SparseSet_elements(st.pending) :
                index_versions[index + 1] < MaxVersion
        /\ m.asserts
        /\ masks' = m.masks
        /\ index_versions' = m.index_versions
        /\ free_indices' = m.free_indices
        /\ index_caches' = m.index_caches
        /\ owns' = [k \in 1 .. Len(owns) |->
                        IF (k - 1) \in SparseSet_elements(st.pending)
                        THEN {} ELSE owns[k]]
        /\ indices_to_destroy' = SparseSet_clear(st.pending)
        /\ calls' = Append(st.calls,
                        [system    |-> NullSystem,
                         valid     |-> ValidIn(m.index_versions),
                         marked    |-> {},
                         destroyed |-> {}])
        /\ UNCHANGED << component_pools, issued >>

\* SystemManager::update_all(dt)
update_all(destroys) ==
    /\ run_and_flush(systems_in_order(systems), destroys)
    /\ UNCHANGED << registry_vars, par_vars, set_vars, cache_vars, BaseSystem_m_family, system_family, systems >>

\* the template argument lists <First> and <First, Rest>
SystemLists == { << A >> : A \in SystemTypes } \cup
               { << A, B >> : A, B \in SystemTypes }

\* SystemManager::update<First, Rest...>(dt)
SystemManager_update(types, destroys) ==
    /\ \A k \in 1 .. Len(types) : has_system(types[k])
    /\ run_and_flush(fetch_systems(systems, Registry(BaseSystem_m_family, system_family),
                                   types), destroys)
    /\ UNCHANGED << registry_vars, par_vars, set_vars, cache_vars, BaseSystem_m_family, system_family, systems >>

NextSystem ==
    \/ /\ create_entity
       /\ UNCHANGED other_vars
    \/ \E type \in SystemTypes : SystemManager_add(type)
    \/ \E type \in SystemTypes : SystemManager_remove(type)
    \/ \E type \in SystemTypes : call_has(type)
    \/ \E type \in SystemTypes : call_get(type)
    \/ \E destroys \in Destroys(systems_in_order(systems)) : update_all(destroys)
    \/ \E types \in SystemLists :
        /\ \A k \in 1 .. Len(types) : has_system(types[k])
        /\ \E destroys \in Destroys(fetch_systems(systems,
                    Registry(BaseSystem_m_family, system_family), types)) :
                SystemManager_update(types, destroys)

\* a SystemManager on an EntityManager whose entities only the systems destroy
SpecSystem == Init /\ [][NextSystem]_vars

(***************************************************************************)
(* The properties.                                                          *)
(***************************************************************************)
Slots == 0 .. (Len(masks) - 1)

\* the slots whose mask includes every family of sig
Matching(sig) == { i \in Slots : (masks[i + 1] \cap sig) = sig }

\* C1: every cached signature maps to exactly the set of the slots whose mask
\* includes the signature, each of them held once.
C1_CacheCoherence ==
    \A sig \in DOMAIN index_caches :
        /\ SparseSet_elements(index_caches[sig]) = Matching(sig)
        /\ SparseSet_size(index_caches[sig]) = Cardinality(Matching(sig))
        /\ \A i \in Slots : SparseSet_contains(index_caches[sig], i) <=> i \in Matching(sig)

\* a cache that has lost a member to erase and still holds one, after a flush
C1_Witness ==
    \E sig \in DOMAIN index_caches :
        /\ SparseSet_size(index_caches[sig]) >= 1
        /\ Len(index_caches[sig].dense) > SparseSet_size(index_caches[sig])
        /\ free_indices # << >>

\* C2: the flush invalidates every handle (every copy of it) of every slot that
\* was marked for destruction; a handle is valid while its version is the
\* slot's version.
C2_FlushInvalidatesAliases ==
    [][update =>
        \A h \in issued :
            (Entity_valid(h) /\ marked_for_destruction(h.index)) => ~Entity_valid(h)']_vars

\* a handle that a flush has invalidated
C2_Witness ==
    \E h \in issued : ~Entity_valid(h) /\ h.index \in { free_indices[k] : k \in 1 .. Len(free_indices) }

C4_IdempotentDestroy ==
    /\ [](Cardinality(SparseSet_elements(indices_to_destroy)) = number_of_entities_to_destroy)
    /\ [][\A e \in issued :
            (destroy(e) /\ marked_for_destruction(e.index)) =>
                number_of_entities_to_destroy' = number_of_entities_to_destroy]_vars

\* every entity is marked: each further destroy() is a repeated one
C4_Witness ==
    /\ number_of_entities_to_destroy = MaxEntities
    /\ \A h \in ValidHandles : marked_for_destruction(h.index)

\* C5: when create_entity reuses a slot, the handle it returns has a version
\* above the version of every handle issued for the slot before.
C5_ReuseRaisesVersion ==
    free_indices # << >> =>
        \A h \in issued : h.index = NewEntity.index => h.version < NewEntity.version

\* C6: number_of_entities_with is the number of slots whose mask includes the
\* signature, with a cache for the signature and without one.
C6_CountAgrees ==
    \A sig \in Signatures :
        /\ number_of_entities_with(Manager, sig) = Cardinality(Matching(sig))
        /\ number_of_entities_with(Manager, sig) =
                number_of_entities_with([Manager EXCEPT !.index_caches = << >>], sig)

\* a count served from a cache and a count served by the scan, after a remove or a flush
C6_Witness ==
    /\ \E sig \in DOMAIN index_caches :
            /\ number_of_entities_with(Manager, sig) >= 1
            /\ Len(index_caches[sig].dense) > SparseSet_size(index_caches[sig])
    /\ \E sig \in Signatures \ DOMAIN index_caches : number_of_entities_with(Manager, sig) >= 1

\* C7: a set mask bit means that the family's pool exists and reaches the slot,
\* and the bits set are the families added to the slot (by add or by copy) and
\* not removed since.
C7_MaskPoolCoherence ==
    \A i \in Slots :
        /\ masks[i + 1] = owns[i + 1]
        /\ \A f \in masks[i + 1] :
            /\ f < Len(component_pools)
            /\ component_pools[f + 1].made
            /\ Pool_contains(component_pools[f + 1].components, i)

\* a reused slot that has a component, next to a slot whose component was
\* removed while the pool still reaches it
C7_Witness ==
    \E i, j \in Slots : \E f \in Families :
        /\ index_versions[i + 1] > 1
        /\ has_component(i, f)
        /\ ~has_component(j, f)
        /\ Pool_contains(component_pools[f + 1].components, j)

\* C8: get<C>(e) is the value given by the last add<C> or replace<C> on e, or
\* copied into e from the original by create_copy_of.
C8_GetReturnsLastValue ==
    [][/\ \A e \in issued, f \in Families, x \in Values :
            (add(e, f, x) \/ replace(e, f, x)) => get_component(Manager', e.index, f) = x
       /\ \A original \in issued : create_copy_of(original) =>
            \A f \in component_mask_for(original.index) :
                get_component(Manager', NewEntity.index, f) =
                    get_component(Manager, original.index, f)
       /\ \A i \in Slots : \A f \in Families :
            (f \in masks[i + 1] /\ f \in masks'[i + 1] /\
             get_component(Manager', i, f) # get_component(Manager, i, f))
                => \E e \in issued, x \in Values : e.index = i /\ replace(e, f, x)]_vars

\* C9: add<C>(e, x) followed by remove<C>(e) restores e's mask, every count and
\* the members of every cache.
C9_AddRemoveRestores ==
    \A e \in ValidHandles : \A f \in Families \ component_mask_for(e.index) :
        \A x \in ComponentValues(f) :
            LET added == add_component(Manager, e.index, f, x)
                removed == remove_component(added, e.index, f)
            IN  /\ f \in added.masks[e.index + 1]
                /\ removed.masks = masks
                /\ DOMAIN removed.index_caches = DOMAIN index_caches
                /\ \A sig \in DOMAIN index_caches :
                        SparseSet_elements(removed.index_caches[sig]) =
                            SparseSet_elements(index_caches[sig])
                /\ \A sig \in Signatures :
                        number_of_entities_with(removed, sig) =
                            number_of_entities_with(Manager, sig)

\* an entity whose add<C> enters a cache that already holds another entity
C9_Witness ==
    \E e \in ValidHandles : \E f \in Families \ component_mask_for(e.index) :
        \E sig \in DOMAIN index_caches :
            /\ f \in sig
            /\ sig \subseteq (component_mask_for(e.index) \cup {f})
            /\ SparseSet_size(index_caches[sig]) >= 1

\* C10: create_copy_of(e) returns a valid handle on another slot, with e's mask
\* and e's component values; the clone enters every cache whose signature the
\* mask includes, and size() grows by one.
C10_CopyEqualsOriginal ==
    [][\A original \in issued : create_copy_of(original) =>
        \A clone \in {EntityID(NewEntity.index, NewEntity.version)} :
            /\ Entity_valid(clone)'
            /\ clone.index # original.index
            /\ masks'[clone.index + 1] = masks[original.index + 1]
            /\ \A f \in masks[original.index + 1] :
                    get_component(Manager', clone.index, f) =
                        get_component(Manager, original.index, f)
            /\ \A sig \in DOMAIN index_caches :
                    (sig \cap masks[original.index + 1]) = sig =>
                        /\ SparseSet_contains(index_caches[sig], clone.index)'
                        /\ SparseSet_size(index_caches[sig])' =
                                SparseSet_size(index_caches[sig]) + 1
            /\ size' = size + 1]_vars

\* C11: when every one of the N slots was created, destroyed and not yet
\* flushed, size() is N; the flush leaves size() = 0, nothing to destroy, N
\* reusable slots and a capacity() of N or more.
C11_CreateDestroyFlushCounts ==
    [][(update /\ free_indices = << >> /\ number_of_entities_to_destroy = Len(masks)) =>
        \A N \in {Len(masks)} :
            /\ size = N
            /\ size' = 0
            /\ number_of_entities_to_destroy' = 0
            /\ number_of_reusable_entities' = N
            /\ \A half \in BOOLEAN : capacity(half)' >= N]_vars

\* MaxSlots entities were created, destroyed and flushed
C11_Witness ==
    /\ Len(masks) = MaxSlots
    /\ number_of_reusable_entities = MaxSlots
    /\ number_of_entities_to_destroy = 0
    /\ size = 0

\* C12: capacity() is size() + number_of_reusable_entities(), whichever way the
\* vector of masks grows.
C12_CapacityIsSizePlusReusable ==
    \A half \in BOOLEAN : capacity(half) = size + number_of_reusable_entities

\* C13: update() finalises exactly the slots of indices_to_destroy: each leaves
\* every cache, gets an empty mask and the next version and is pushed on
\* free_indices once; the other slots keep all of these; indices_to_destroy is
\* empty afterwards and number_of_reusable_entities() grows by their number.
C13_FlushFinalisesPending ==
    [][update =>
        \A pending \in {SparseSet_elements(indices_to_destroy)} :
            /\ \A i \in Slots : \A pushes \in {IF i \in pending THEN 1 ELSE 0} :
                 /\ Cardinality({k \in 1 .. Len(free_indices') : free_indices'[k] = i}) =
                        Cardinality({k \in 1 .. Len(free_indices) : free_indices[k] = i}) + pushes
                 /\ index_versions'[i + 1] = index_versions[i + 1] + pushes
                 /\ masks'[i + 1] = IF i \in pending THEN {} ELSE masks[i + 1]
                 /\ \A sig \in DOMAIN index_caches :
                        SparseSet_contains(index_caches[sig], i)' =
                            (i \notin pending /\ SparseSet_contains(index_caches[sig], i))
            /\ DOMAIN index_caches' = DOMAIN index_caches
            /\ number_of_entities_to_destroy' = 0
            /\ \A i \in Slots : ~marked_for_destruction(i)'
            /\ number_of_reusable_entities' =
                    number_of_reusable_entities + Cardinality(pending)
            /\ component_pools' = component_pools]_vars

\* a slot that held a component of a cached signature has been flushed: it is
\* free, with the next version, and the cache is still there, without it
C13_Witness ==
    \E i \in Slots : \E sig \in DOMAIN index_caches :
        /\ index_versions[i + 1] > 1
        /\ \E k \in 1 .. Len(free_indices) : free_indices[k] = i
        /\ number_of_entities_to_destroy = 0
        /\ ~SparseSet_contains(index_caches[sig], i)
        /\ \E k \in 1 .. Len(index_caches[sig].dense) : index_caches[sig].dense[k] = i
        /\ \A f \in sig :
                /\ f < Len(component_pools)
                /\ Pool_contains(component_pools[f + 1].components, i)

\* C14: replace<C>(e, x) makes get<C>(e) = x and leaves the masks, the caches,
\* every number_of_entities_with and every other stored component as they are.
C14_ReplaceOverwritesOnly ==
    [][\A e \in issued, f \in Families, x \in Values :
        replace(e, f, x) =>
            /\ get_component(Manager', e.index, f) = x
            /\ masks' = masks
            /\ index_caches' = index_caches
            /\ \A sig \in Signatures :
                    number_of_entities_with(Manager', sig) =
                        number_of_entities_with(Manager, sig)
            /\ \A i \in Slots : \A g \in masks[i + 1] :
                    (i # e.index \/ g # f) =>
                        get_component(Manager', i, g) = get_component(Manager, i, g)]_vars

\* two entities of a cached signature hold different values of the component
C14_Witness ==
    \E e \in ValidHandles : \E other \in ValidHandles : \E sig \in DOMAIN index_caches :
        /\ 0 \in sig
        /\ SparseSet_contains(index_caches[sig], e.index)
        /\ SparseSet_contains(index_caches[sig], other.index)
        /\ get_component(Manager, e.index, 0) # get_component(Manager, other.index, 0)

\* C15: the signature of a list of component types does not depend on the order
\* of the list: signature_for<A, B>() and signature_for<B, A>(), called one after
\* the other in either order, return the same mask, the ids of A and B; the same
\* for util::mask_for, in whatever order its arguments are evaluated.
C15_SignatureSymmetry ==
    \A A, B \in ComponentTypes :
        /\ \A first \in {<< A, B >>, << B, A >>} : \A second \in {<< A, B >>, << B, A >>} :
            \A r1 \in {signature_for(Registry(family_counter, family_id), first)} :
            \A r2 \in {signature_for(r1.reg, second)} :
                r2.reg.asserts =>
                    /\ r1.mask = r2.mask
                    /\ r1.mask = {r2.reg.ids[A], r2.reg.ids[B]}
        /\ \A first \in {<< A, B >>, << B, A >>} : \A second \in {<< A, B >>, << B, A >>} :
            \A o1 \in Orders(2) : \A o2 \in Orders(2) :
            \A r1 \in {mask_for(Registry(BaseComponent_m_family, component_family), first, o1)} :
            \A r2 \in {mask_for(r1.reg, second, o2)} :
                r2.reg.asserts =>
                    /\ r1.mask = r2.mask
                    /\ r1.mask = {r2.reg.ids[A], r2.reg.ids[B]}

\* one type is registered in each registry and there is room for another
C15_Witness ==
    /\ family_counter = 1
    /\ BaseComponent_m_family = 1
    /\ MAX_COMPONENTS >= 2

\* C16: registering MAX_COMPONENTS component types succeeds, every family id
\* handed out is below MAX_COMPONENTS, and registering one more type does not
\* return (the assertion fails).
C16_FamilyBound ==
    /\ \A type \in DOMAIN family_id : family_id[type] < MAX_COMPONENTS
    /\ \A type \in DOMAIN component_family : component_family[type] < MAX_COMPONENTS
    /\ \A type \in ComponentTypes \ DOMAIN family_id :
            internal_Component_family(Registry(family_counter, family_id), type).reg.asserts
                <=> Cardinality(DOMAIN family_id) < MAX_COMPONENTS
    /\ \A type \in ComponentTypes \ DOMAIN component_family :
            Component_family(Registry(BaseComponent_m_family, component_family), type).reg.asserts
                <=> Cardinality(DOMAIN component_family) < MAX_COMPONENTS

\* C17: a SystemManager holds at most one instance of a system type. has<S>()
\* is false while nothing was added, true after add<S>() and false after
\* remove<S>(); get<S>() returns the stored instance of S, which is not null;
\* add<S>() of a managed type and remove<S>() or get<S>() of an unmanaged one do
\* not pass their assertion; and an operation on S leaves has<T>() of every
\* other type T as it was.
C17_OneSystemPerType ==
    /\ [](/\ systems = << >> => \A S \in SystemTypes : ~has_system(S)
          /\ \A k \in 1 .. Len(systems) :
                systems[k] # NullSystem =>
                    \E S \in SystemTypes :
                        /\ systems[k] = {S}
                        /\ S \in DOMAIN system_family
                        /\ system_family[S] = k - 1
          /\ \A S \in SystemTypes :
                Cardinality({ k \in 1 .. Len(systems) : systems[k] = {S} }) <= 1)
    /\ [][\A S \in SystemTypes :
            /\ SystemManager_add(S) =>
                /\ ~has_system(S)
                /\ has_system(S)'
                /\ SystemManager_get(S)' = {S}
                /\ SystemManager_get(S)' # NullSystem
                /\ \A T \in SystemTypes \ {S} : has_system(T)' = has_system(T)
            /\ SystemManager_remove(S) =>
                /\ has_system(S)
                /\ ~has_system(S)'
                /\ \A T \in SystemTypes \ {S} : has_system(T)' = has_system(T)
            /\ call_has(S) =>
                \A T \in SystemTypes : has_system(T)' = has_system(T)
            /\ call_get(S) =>
                /\ has_system(S)
                /\ SystemManager_get(S) = {S}]_vars

\* one system was added and removed while another one is managed
C17_Witness ==
    /\ Len(systems) = NumSystems
    /\ \E k \in 1 .. Len(systems) : systems[k] = NullSystem
    /\ \E S \in SystemTypes : has_system(S) /\ SystemManager_get(S) = {S}

\* the type of a system instance
TypeOf(system) == CHOOSE S \in SystemTypes : system = {S}

\* the calls of the log that are updates of a system, the last one is the flush
SystemCalls(log) == 1 .. (Len(log) - 1)

\* C18: update_all(dt) updates every managed system once, in increasing order of
\* the family ids, skips the removed ones, and flushes the entity manager once,
\* after the last system: an entity that a system destroys is valid for every
\* later system of the call and is not valid when update_all returns.
C18_UpdateAllOrderThenFlush ==
    [][\A destroys \in Destroys(systems) :
        update_all(destroys) =>
            /\ Len(calls') >= 1
            /\ calls'[Len(calls')].system = NullSystem
            /\ \A k \in SystemCalls(calls') : calls'[k].system # NullSystem
            /\ \A S \in SystemTypes :
                    Cardinality({ k \in SystemCalls(calls') : calls'[k].system = {S} }) =
                        IF has_system(S) THEN 1 ELSE 0
            /\ \A j, k \in SystemCalls(calls') :
                    j < k => system_family[TypeOf(calls'[j].system)] <
                                system_family[TypeOf(calls'[k].system)]
            /\ \A j, k \in SystemCalls(calls') :
                    j <= k => calls'[j].destroyed \subseteq calls'[k].valid
            /\ \A k \in SystemCalls(calls') :
                    /\ calls'[k].destroyed \cap ValidHandles' = {}
                    /\ calls'[k].destroyed \cap calls'[Len(calls')].valid = {}
            /\ SparseSet_elements(indices_to_destroy') = {}]_vars

\* two systems were updated in the order of their family ids, the first one
\* destroyed an entity that the second one saw valid and marked
C18_Witness ==
    /\ Len(calls) = 3
    /\ Len(systems) = 2
    /\ calls[1].system = systems[1]
    /\ calls[2].system = systems[2]
    /\ calls[1].destroyed # {}
    /\ calls[1].destroyed \subseteq calls[2].valid
    /\ \E h \in calls[1].destroyed : h.index \in calls[2].marked
    /\ calls[1].destroyed \cap ValidHandles = {}

\* C19: update<First, Rest...>(dt) updates the listed systems and no other, in
\* the order of the list, whatever their family ids are, and then flushes the
\* entity manager once.
C19_UpdateListedInOrder ==
    [][\A types \in SystemLists :
        \A destroys \in Destroys([k \in 1 .. Len(types) |-> {types[k]}]) :
            SystemManager_update(types, destroys) =>
                /\ Len(calls') = Len(types) + 1
                /\ \A k \in 1 .. Len(types) :
                        /\ calls'[k].system = {types[k]}
                        /\ calls'[k].system = SystemManager_get(types[k])
                /\ calls'[Len(calls')].system = NullSystem
                /\ \A S \in SystemTypes :
                        (\A k \in 1 .. Len(types) : types[k] # S) =>
                            \A k \in 1 .. Len(calls') : calls'[k].system # {S}
                /\ \A k \in 1 .. Len(types) :
                        calls'[k].destroyed \cap ValidHandles' = {}
                /\ SparseSet_elements(indices_to_destroy') = {}]_vars

\* the listed systems were updated against the order of their family ids
C19_Witness ==
    /\ Len(calls) = 3
    /\ Len(systems) = 2
    /\ systems[1] # NullSystem
    /\ calls[1].system = systems[2]
    /\ calls[2].system = systems[1]

\* C20: for_entities_with<First, Rest...>(f), with a visitor that adds, removes,
\* creates and destroys nothing, calls f once for every slot whose mask includes
\* the signature and for no other slot, with the valid handle of the slot and
\* the slot's own components; what the visitor writes to a component changes
\* that component of that entity and nothing else.
C20_VisitsEachMatchingSlotOnce ==
    [][\A sig \in QuerySignatures : \A target \in sig : \A write \in Visitors :
        for_entities_with_f(sig, target, write) =>
            \A r \in {for_entities_visits(sig, target, write)} :
                /\ \A i \in Slots :
                        Cardinality({ k \in 1 .. Len(r.visits) : r.visits[k].index = i }) =
                            IF i \in Matching(sig) THEN 1 ELSE 0
                /\ \A k \in 1 .. Len(r.visits) :
                        /\ r.visits[k].index \in Slots
                        /\ r.visits[k].entity =
                                EntityID(r.visits[k].index,
                                         index_versions[r.visits[k].index + 1])
                        /\ valid_id(r.visits[k].entity)
                        /\ r.visits[k].components =
                                [g \in sig |-> get_component(Manager, r.visits[k].index, g)]
                /\ \A i \in Slots : \A g \in masks[i + 1] :
                        get_component(Manager', i, g) =
                            IF i \in Matching(sig) /\ g = target
                            THEN write[get_component(Manager, i, g)]
                            ELSE get_component(Manager, i, g)
                /\ masks' = masks
                /\ index_versions' = index_versions
                /\ SparseSet_elements(index_caches'[sig]) = Matching(sig)]_vars

\* a cached signature with a slot that has it and holds a written value, and a
\* slot that has not
C20_Witness ==
    \E sig \in QuerySignatures :
        /\ contains_cache_for(index_caches, sig)
        /\ \E i \in Matching(sig) : get_component(Manager, i, 0) # DefaultValue
        /\ Slots \ Matching(sig) # {}
        /\ \E i \in Slots \ Matching(sig) : index_versions[i + 1] > 1

\* the slots the calls of a pass were made on
Visited(visits) == { visits[k].index : k \in 1 .. Len(visits) }

Invocations(w, i) == Cardinality({ k \in 1 .. Len(w.visits) : w.visits[k] = i })

\* C22: par_for_entities_with<S>(f) calls f once on the components of each slot
\* of the cache of S, which are the slots whose mask includes S, in any order,
\* and returns when every call has returned: on return each of these slots
\* holds what the visitor wrote from the value it had before the call, and no
\* other component has changed.
C22_ParallelVisitsEachOnce ==
    [][par_join =>
        \A w \in {workers} :
            /\ all_completed(w)
            /\ SparseSet_elements(index_caches[w.sig]) = Matching(w.sig)
            /\ \A i \in Slots :
                    Invocations(w, i) = IF i \in Matching(w.sig) THEN 1 ELSE 0
            /\ \A i \in Slots : \A f \in masks[i + 1] :
                    get_component(Manager', i, f) =
                        IF i \in Matching(w.sig) /\ f = 0
                        THEN w.write[get_component([component_pools |-> w.before], i, f)]
                        ELSE get_component([component_pools |-> w.before], i, f)
            /\ ~workers'.active]_vars

\* the calls of a pass over two slots were made against the order of the cache
\* and have returned
C22_Witness ==
    /\ workers.active
    /\ all_completed(workers)
    /\ Len(workers.visits) = 2
    /\ workers.visits[1] = par_index(index_caches[workers.sig], 2)
    /\ workers.visits[2] = par_index(index_caches[workers.sig], 1)

\* C23: during par_for_entities_with no two invocations that run at the same
\* time hold a reference to the same component: an invocation holds the
\* components of its own slot, which the pools hold, and the slots of the cache
\* are pairwise distinct.
C23_ParallelReferencesDisjoint ==
    workers.active =>
        /\ \A k1, k2 \in Positions(workers) :
                k1 # k2 => par_index(index_caches[workers.sig], k1) #
                                par_index(index_caches[workers.sig], k2)
        /\ \A k1, k2 \in Running(workers) :
                k1 # k2 => par_references(workers, k1) \cap
                                par_references(workers, k2) = {}
        /\ \A k \in Positions(workers) : \A ref \in par_references(workers, k) :
                /\ ref[2] = par_index(index_caches[workers.sig], k)
                /\ ref[1] \in masks[ref[2] + 1]
                /\ Pool_contains(component_pools[ref[1] + 1].components, ref[2])

\* two invocations run at the same time
C23_Witness ==
    /\ workers.active
    /\ Cardinality(Running(workers)) = 2

\* C24: after any sequence of insert of an absent integer, erase of a present
\* one and clear, contains(v) is true exactly of the integers inserted and not
\* erased since, size() is their number, and the iteration from begin() to
\* end() meets each of them once and nothing else.
C24_SparseSetIsTheSet ==
    /\ \A v \in SetValues : SparseSet_contains(sparse_set, v) <=> v \in members
    /\ SparseSet_size(sparse_set) = Cardinality(members)
    /\ SparseSet_elements(sparse_set) = members
    /\ Len(SparseSet_iteration(sparse_set)) = Cardinality(members)
    /\ \A k1, k2 \in 1 .. Len(SparseSet_iteration(sparse_set)) :
            k1 # k2 => SparseSet_iteration(sparse_set)[k1] #
                            SparseSet_iteration(sparse_set)[k2]

\* an erase has moved the last integer into the place of a smaller one, and
\* the storage holds more than the set
C24_Witness ==
    /\ Cardinality(members) = 2
    /\ Len(sparse_set.dense) >= 3
    /\ sparse_set.dense[1] > sparse_set.dense[2]
    /\ \E v \in SetValues \ members : v < Len(sparse_set.sparse)

\* the calls the claim C25 is about
Misuse(operation, e, family) ==
    \/ ~Entity_valid(e)
    \/ operation = "add" /\ has_component(e.index, family)
    \/ operation \in {"remove", "replace", "get"} /\ ~has_component(e.index, family)

\* C25: add<C> on an entity that has C, remove<C>, replace<C> or get<C> on one
\* that has not, and every operation of a handle that is not valid, fail an
\* assertion, and the manager is as it was when the assertion fails.
C25_MisuseAssertsFirst ==
    /\ [](\A operation \in HandleOperations : \A e \in issued :
            \A family \in FamiliesOf(operation) :
                Misuse(operation, e, family) => ~handle_asserts(operation, e, family))
    /\ [][\A operation \in HandleOperations : \A e \in issued :
            \A family \in FamiliesOf(operation) :
                (Misuse(operation, e, family) /\
                 handle_call(operation, e, family, DefaultValue)) =>
                    UNCHANGED entity_vars]_vars

\* the host has a handle that is not valid any more, whose slot holds a
\* component again and is in a cache, and a valid handle without a component
C25_Witness ==
    /\ \E e \in issued \ ValidHandles :
            /\ has_component(e.index, 0)
            /\ \E sig \in DOMAIN index_caches : SparseSet_contains(index_caches[sig], e.index)
    /\ \E e \in ValidHandles : ~has_component(e.index, 0)

\* C26: while no slot can be reused, create_entity returns a valid handle
\* whose index is the number of slots allocated so far, with version 1 and an
\* empty mask, and size() grows by one; the handles of a manager that has
\* reused no slot have the indices 0, 1, 2, ... and each id is greater than
\* every id returned before.
C26_FreshSlotsInOrder ==
    [][(free_indices = << >> /\ create_entity_within(MaxSlots)) =>
        \A e \in {EntityID(Len(masks), 1)} :
            /\ e \in issued'
            /\ issued' = issued \cup {e}
            /\ Entity_valid(e)'
            /\ Len(masks') = Len(masks) + 1
            /\ masks'[e.index + 1] = {}
            /\ index_versions'[e.index + 1] = 1
            /\ size' = size + 1
            /\ (\A h \in issued : h.version = 1) =>
                    /\ { h.index : h \in issued' } = 0 .. e.index
                    /\ \A h \in issued : ID_less(h, e)]_vars

\* three handles of a manager that has reused no slot
C26_Witness ==
    /\ issued = { EntityID(i, 1) : i \in 0 .. 2 }
    /\ free_indices = << >>
    /\ size = 3

\* C27: a default-constructed handle, which has no manager and the id of
\* version 0, is not valid, and no handle that create_entity or create_copy_of
\* has returned has the version 0.
C27_NoHandleOfVersionZero ==
    /\ ~Entity_valid_of(DefaultEntity)
    /\ \A e \in issued : e.version # 0

\* the slots on the free list
FreeSlots == { free_indices[k] : k \in 1 .. Len(free_indices) }

\* C28: the free list holds no slot twice; a slot on it has an empty mask, is
\* not marked for destruction, is in no cache and has no valid handle; a slot
\* that is not on it has a version of 1 or more. So the handle create_entity
\* returns on a reused slot has an empty mask and is in no cache.
C28_FreeListIsClean ==
    /\ \A k1, k2 \in 1 .. Len(free_indices) :
            k1 # k2 => free_indices[k1] # free_indices[k2]
    /\ \A i \in FreeSlots :
            /\ i \in Slots
            /\ masks[i + 1] = {}
            /\ ~marked_for_destruction(i)
            /\ \A sig \in DOMAIN index_caches : ~SparseSet_contains(index_caches[sig], i)
            /\ \A e \in issued : e.index = i => ~Entity_valid(e)
    /\ \A i \in Slots \ FreeSlots : index_versions[i + 1] >= 1
    /\ free_indices # << >> =>
            /\ NewEntity.masks[NewEntity.index + 1] = {}
            /\ \A sig \in DOMAIN index_caches :
                    ~SparseSet_contains(index_caches[sig], NewEntity.index)

\* C29: the first pass over a signature that has no cache leaves a cache for it
\* whose members are exactly the slots whose mask includes the signature when
\* the pass returns, the removals and additions that the visitor made during
\* the pass included: the cache is built and registered before the first call.
C29_FirstPassCacheIsExact ==
    [][\A sig \in QuerySignatures :
        \A g \in { v \in EachVisitors : HoldsValid(v) } :
            (/\ ~contains_cache_for(index_caches, sig)
             /\ for_each_entity_with(sig, g, NoReads(sig))) =>
                /\ contains_cache_for(index_caches', sig)
                /\ SparseSet_elements(index_caches'[sig]) =
                       { i \in 0 .. (Len(masks') - 1) : (masks'[i + 1] \cap sig) = sig }]_vars

\* C30: every call that for_entities_with<S> makes of its visitor is made on an
\* entity whose mask includes S when the call is made, also when an earlier
\* call of the pass has removed a component of S from an entity that was not
\* visited yet. Passes that invalidate the iterators of the loop are left out.
C30_VisitedHaveSignature ==
    [][\A sig \in QuerySignatures :
        \A g \in { v \in StructuralVisitors : HoldsValid(v) } :
            \A reads \in Reads(sig, g) :
                for_entities_with_g(sig, g, reads) =>
                    \A r \in {for_entities_mutating(sig, g, reads)} :
                        ~r.dangling =>
                            \A k \in 1 .. Len(r.visits) :
                                (r.visits[k].mask \cap sig) = sig]_vars

\* C31: in a pass of for_entities_with<S> whose visitor removes components of S
\* from some entities and adds components of S to others, every entity whose
\* mask includes S from the start of the pass to its end is visited exactly
\* once. Passes that invalidate the iterators of the loop are left out.
C31_KeptVisitedOnce ==
    [][\A sig \in QuerySignatures :
        \A gs \in { v \in PassVisitors : HoldBothValid(v) } :
            \A reads \in ReadsBoth(sig, gs) :
                for_entities_with_both(sig, gs, reads) =>
                    \A r \in {for_entities_both(sig, gs, reads)} :
                        ~r.dangling =>
                            \A i \in r.kept :
                                Cardinality({ k \in 1 .. Len(r.visits) :
                                                r.visits[k].index = i }) = 1]_vars

SlotView(index) ==
    [mask    |-> masks[index + 1],
     version |-> index_versions[index + 1],
     marked  |-> marked_for_destruction(index),
     values  |-> [family \in masks[index + 1] |->
                    Pool_at(component_pools[family + 1].components, index)]]

\* C33: add<C>, replace<C>, remove<C> and destroy on an entity leave the mask,
\* the version, the pending-destroy status and the component values of every
\* other entity as they were, also when the pool of C grows to reach the
\* entity's index.
C33_OthersUntouched ==
    [][\A e \in issued :
        (\/ \E family \in Families : \E component \in ComponentValues(family) :
                add(e, family, component) \/ replace(e, family, component)
         \/ \E family \in Families : remove(e, family)
         \/ destroy(e)) =>
            \A index \in 0 .. (Len(masks) - 1) :
                index # e.index => SlotView(index)' = SlotView(index)]_vars

\* entity 0 holds a component that is not the default one, and the pool of its
\* type has grown past its slot for a component of entity 1
C33_Witness ==
    /\ Len(masks) = 2
    /\ masks[1] = {0} /\ masks[2] = {0}
    /\ Len(component_pools[1].components) = 2
    /\ Pool_at(component_pools[1].components, 0) = MaxValue

\* what the manager holds apart from the values of the components: the slot
\* vectors, the free list, the pending destructions, the caches, the pool table
\* with the size of each pool, and the family registry
Structure ==
    << masks, index_versions, free_indices, indices_to_destroy, index_caches,
       [k \in 1 .. Len(component_pools) |->
            [made |-> component_pools[k].made,
             size |-> Len(component_pools[k].components)]],
       family_counter, family_id >>

\* C34: between the fork and the join of par_for_entities_with nothing of the
\* structure is written: when the parallel region starts the cache of the
\* signature is there and holds the matching slots, one invocation is to be made
\* for each of them, and every family of the signature is registered; from then
\* to the join the masks, versions, free list, pending destructions, caches,
\* pool table and family registry stay as they are.
C34_RegionKeepsStructure ==
    /\ [][(~workers.active /\ workers'.active) =>
            /\ contains_cache_for(index_caches', workers'.sig)
            /\ SparseSet_elements(index_caches'[workers'.sig]) =
                    matching_in(masks', workers'.sig)
            /\ Len(workers'.status) = SparseSet_size(index_caches'[workers'.sig])
            /\ \A f \in workers'.sig :
                    /\ f < family_counter'
                    /\ \E t \in DOMAIN family_id' : family_id'[t] = f]_vars
    /\ [][workers.active => Structure' = Structure]_vars

\* a pass over two component types is in its parallel region: one invocation
\* has returned and another is running
C34_Witness ==
    /\ workers.active
    /\ workers.sig = {0, 1}
    /\ family_counter = 2
    /\ \E k \in Positions(workers) : workers.status[k] = "done"
    /\ \E k \in Positions(workers) : workers.status[k] = "running"

\* C35: after clear() the manager counts no entity, no reusable slot and no
\* pending destruction and has no cache, and no handle issued before the clear
\* is the handle of an entity created after it: create_entity returns a handle
\* that was never returned before.
C35_ClearForgetsNothingIssued ==
    /\ [][clear =>
            /\ Len(masks') - Len(free_indices') = 0
            /\ Len(free_indices') = 0
            /\ SparseSet_size(indices_to_destroy') = 0
            /\ DOMAIN index_caches' = {}]_vars
    /\ [][create_entity =>
            \A index \in {IF free_indices = << >> THEN Len(masks)
                          ELSE free_indices[Len(free_indices)]} :
                EntityID(index, index_versions'[index + 1]) \notin issued]_vars

\* C36: the version of a slot never wraps: after any number of cycles of
\* destroy, flush and create on a slot its version is not 0, a flush gives the
\* slot a version no handle of the slot was issued with, and a handle that has
\* become invalid is never valid again.
C36_VersionNeverWraps ==
    /\ [](\A k \in 1 .. Len(index_versions) : index_versions[k] # 0)
    /\ [][update =>
            \A index \in SparseSet_elements(indices_to_destroy) :
                \A e \in issued :
                    e.index = index => e.version # index_versions'[index + 1]]_vars
    /\ [][\A e \in issued : ~Entity_valid(e) => ~Entity_valid(e)']_vars

\* the ids of a registry are those of its types, one each, counted from 0 in
\* the order in which the types were first used
CountedFromZero(counter, ids) ==
    /\ \A t, u \in DOMAIN ids : ids[t] = ids[u] => t = u
    /\ { ids[t] : t \in DOMAIN ids } = 0 .. (counter - 1)

\* a step keeps the id of every type that has one, and the types that get
\* theirs in the step get the next ids
IdsKept(counter, ids, new_counter, new_ids) ==
    /\ \A t \in DOMAIN ids : t \in DOMAIN new_ids /\ new_ids[t] = ids[t]
    /\ \A t \in (DOMAIN new_ids) \ (DOMAIN ids) :
            counter <= new_ids[t] /\ new_ids[t] < new_counter

\* C37: a component type gets its family id when it is first used: the ids are
\* 0, 1, 2, ... in the order of first use, a type keeps its id in every later
\* call, and two types never have the same id, so that the signatures of two
\* different types differ.
C37_FamilyIdsInOrderOfUse ==
    /\ [](/\ CountedFromZero(family_counter, family_id)
          /\ CountedFromZero(BaseComponent_m_family, component_family)
          /\ \A A, B \in DOMAIN family_id :
                A # B => signature_for(Registry(family_counter, family_id), << A >>).mask
                            # signature_for(Registry(family_counter, family_id), << B >>).mask)
    /\ [][/\ IdsKept(family_counter, family_id, family_counter', family_id')
          /\ IdsKept(BaseComponent_m_family, component_family,
                     BaseComponent_m_family', component_family')]_vars
    /\ [][\A type \in ComponentTypes :
            /\ (type \notin DOMAIN family_id /\ component_family_for(type)) =>
                    family_id'[type] = family_counter
            /\ (type \notin DOMAIN component_family /\ call_Component_family(type)) =>
                    component_family'[type] = BaseComponent_m_family]_vars
    /\ [][\A A, B \in ComponentTypes :
            (/\ A # B
             /\ A \notin DOMAIN family_id
             /\ B \notin DOMAIN family_id
             /\ call_signature_for(<< A, B >>)) =>
                /\ family_id'[A] = family_counter
                /\ family_id'[B] = family_counter + 1]_vars

\* two types are registered, and the type with the larger number was used first
C37_Witness ==
    /\ family_counter = 2
    /\ 0 \in DOMAIN family_id /\ 1 \in DOMAIN family_id
    /\ family_id[1] = 0
    /\ family_id[0] = 1

C39_DenseSparseLinked ==
    /\ [](/\ sparse_set.n <= Len(sparse_set.dense)
          /\ \A k \in 0 .. (sparse_set.n - 1) :
                /\ sparse_set.dense[k + 1] < Len(sparse_set.sparse)
                /\ sparse_set.sparse[sparse_set.dense[k + 1] + 1] = k
          /\ \A j, k \in 0 .. (sparse_set.n - 1) :
                sparse_set.dense[j + 1] = sparse_set.dense[k + 1] => j = k)
    /\ [][set_clear =>
            /\ sparse_set'.n = 0
            /\ sparse_set'.dense = sparse_set.dense
            /\ sparse_set'.sparse = sparse_set.sparse
            /\ \A v \in SetValues : ~SparseSet_contains(sparse_set', v)]_vars

\* after a clear and an insert the set is smaller than its storage: an integer
\* that is not in it has a stale entry in sparse that points into the part of
\* dense in use, and the part of dense past n holds an integer of the set
C39_Witness ==
    /\ sparse_set.n >= 1
    /\ sparse_set.n < Len(sparse_set.dense)
    /\ \E v \in SetValues \ members :
            /\ v < Len(sparse_set.sparse)
            /\ sparse_set.sparse[v + 1] < sparse_set.n
    /\ \E k \in (sparse_set.n + 1) .. Len(sparse_set.dense) :
            sparse_set.dense[k] \in members

(***************************************************************************)
(* A Cache<T> used by itself: insert at an absent index, erase at a present *)
(* one.                                                                     *)
(***************************************************************************)
CacheIndices == 0 .. MaxCacheIndex

CacheObjects == 0 .. MaxObject

\* the indices inserted and not erased since
Present == DOMAIN stored

cache_insert(index, object) ==
    /\ ~Cache_contains(object_cache, index)
    /\ object_cache' = Cache_insert(object_cache, index, object)
    /\ stored' = [j \in Present \cup {index} |->
                    IF j = index
                    THEN [object |-> object, place |-> Cache_size(object_cache)]
                    ELSE stored[j]]

cache_erase(index) ==
    /\ Cache_contains(object_cache, index)
    /\ object_cache' = Cache_erase(object_cache, index)
    /\ stored' = [j \in Present \ {index} |-> stored[j]]

NextCache ==
    \/ /\ \E index \in CacheIndices, object \in CacheObjects :
            cache_insert(index, object)
       /\ UNCHANGED << entity_vars, registry_vars, system_vars, par_vars, set_vars >>
    \/ /\ \E index \in CacheIndices : cache_erase(index)
       /\ UNCHANGED << entity_vars, registry_vars, system_vars, par_vars, set_vars >>

SpecCache == Init /\ [][NextCache]_vars

\* C40: after any sequence of inserts at absent indices and erases at present
\* ones, contains(i) is true exactly for the indices inserted and not erased
\* since, get(i) is the object last inserted at i, and size() is the number of
\* those indices
C40_CacheTracksInserted ==
    /\ \A index \in CacheIndices :
          /\ Cache_contains(object_cache, index) <=> index \in Present
          /\ Cache_contains(object_cache, index) =>
                Cache_get(object_cache, index) = stored[index].object
    /\ \A index \in (MaxCacheIndex + 1) .. (MaxCacheIndex + 2) :
          ~Cache_contains(object_cache, index)
    /\ Cache_size(object_cache) = Cardinality(Present)

\* an erase moved the last object to an earlier place, and get of its index
\* still returns it while another index is present too
C40_Witness ==
    \E index \in Present, other \in Present :
        /\ other # index
        /\ object_cache.forward[index + 1] # stored[index].place
        /\ stored[other].object # stored[index].object
        /\ Cache_get(object_cache, index) = stored[index].object
        /\ Cache_get(object_cache, other) = stored[other].object

====
